---- MODULE Spec2Model ----
(***************************************************************************)
(* A state-machine model of the AI pipeline of the document-management     *)
(* backend: the chunker (DocumentProcessor.chunk_text), the embedding      *)
(* engine's batch path with its out-of-memory backoff                      *)
(* (RAGService.generate_embeddings_batch), the lazy model lifecycle        *)
(* (QwenService._ensure_model_loaded / _load_model, classification with    *)
(* its keyword fallback) and document ingestion (upload_document, the      *)
(* queued ProcessDocumentRAGTask and the in-process background task),      *)
(* device selection (_get_best_device), the storing of chunks, the trash   *)
(* and the vector search, question answering (process_search_query and     *)
(* the chat endpoints), classification on texts, the normalisation of     *)
(* embeddings, the scheduling of inference on the event loop and the       *)
(* ownership of the documents the endpoints show.                          *)
(*                                                                         *)
(* Each component has its own specification (SpecChunk, SpecChunkOverlap,  *)
(* SpecEmbed, SpecModel, SpecIngest, SpecDevice, SpecStore, SpecTrash,     *)
(* SpecSearch, SpecClassify, SpecNorm, SpecInfer, SpecOwner); the          *)
(* variables of the other components stay at their initial values.         *)
(***************************************************************************)
EXTENDS Integers, Sequences, FiniteSets, TLC

VARIABLES
    \* ---- DocumentProcessor.chunk_text: one call
    ct_text,        \* the text argument, a sequence of characters
    ct_size,        \* self.chunk_size
    ct_overlap,     \* self.chunk_overlap
    ct_start,       \* local `start`
    ct_chunks,      \* local `chunks`
    ct_pc,          \* "call" | "loop" | "done"
    \* ---- RAGService.generate_embeddings_batch: one call with its recursion
    eb_n,           \* len(texts); the texts are numbered 1..eb_n
    eb_arg,         \* the caller's batch_size argument, 0 for None
    eb_loaded,      \* whether _qwen_service._model and _tokenizer are set
    eb_device,      \* result of _get_best_device(): "cuda" | "mps" | "cpu"
    eb_vram,        \* total_memory of GPU 0 in GB, -1 if the query throws
    eb_sizes,       \* batch_size of every frame of the recursion, outermost first
    eb_i,           \* loop variable i of the innermost frame
    eb_out,         \* `embeddings` of the innermost frame: numbers of the embedded texts
    eb_freed,       \* number of torch.cuda.empty_cache() calls
    eb_pc,          \* "idle" | "call" | "loop" | "returned" | "raised"
    \* ---- QwenService / RAGService singletons: the model lifecycle
    q_model,        \* QwenService._model: "none" | "loaded"
    q_tokenizer,    \* QwenService._tokenizer: "none" | "loaded"
    rag_qwen,       \* RAGService._qwen_service is not None
    q_loads,        \* number of executions of QwenService._load_model
    q_threw,        \* the last _load_model logged a weight-loading error
    m_calls,        \* number of entry-point calls made so far
    m_last,         \* the last entry-point call and how it ended
    \* ---- ingestion: upload_document, ProcessDocumentRAGTask, background task
    docs,           \* documents table and object storage, by document id
    rows,           \* document_chunks table: a set of rows
    up_resp,        \* the upload request's response, by document id
    up_dispatch,    \* how process_document_rag.delay ended, by document id
    up_metrics,     \* `metrics["chunks"]` captured by the request, by document id
    queue,          \* deliveries of the queued task still to run, by document id
    delivered,      \* deliveries of the queued task made so far, by document id
    task,           \* runs of ProcessDocumentRAGTask.run_async, by document id
    bg,             \* background_save_rag_metrics of the request, by document id
    degraded,       \* document ids with "Failed to queue RAG task" logged
    \* ---- QwenService._get_best_device: the calls made in one process
    dv_setting,     \* settings.QWEN_DEVICE
    dv_cuda,        \* torch.cuda.is_available()
    dv_mps,         \* hasattr(torch.backends, "mps") and torch.backends.mps.is_available()
    dv_results,     \* the results of the calls made so far, oldest first
    \* ---- one call of add_document_chunks or save_metrics_to_postgres
    st_fn,          \* "add" | "save": which of the two is called
    st_n,           \* len(chunks); chunk k (from 1) has the text numbered k
    st_i,           \* number of loop iterations done
    st_embs,        \* save: chunk_embeddings, as numbers of the embedded texts
    st_session,     \* rows added to the session and not committed
    st_table,       \* committed rows of document_chunks
    st_skipped,     \* save: number of "Ошибка при создании чанка" log lines
    st_pc,          \* "idle" | "call" | "embedding" | "loop" | "returned" | "raised"
    \* ---- trash: soft delete, restore, permanent delete, and the two searches
    tr_docs,        \* documents table, by id: "absent" | "live" | "trashed"
    tr_chunks,      \* document_chunks table: rows <<document_id, chunk_id>>
    tr_ops,         \* number of requests that changed a table
    tr_result,      \* the last search: what it returned, and the trash then
    \* ---- one chat request: send_message or stream_message with
    \* ---- QwenService.process_search_query
    sq_endpoint,    \* "message" | "stream"
    sq_chunks,      \* what search_for_qwen returns if it returns: a list of chunks
    sq_pc,          \* position of the request, see SearchPcs
    sq_result,      \* what process_search_query returned
    sq_response,    \* what the endpoint sent
    \* classify_metrics_from_rag on a text (SpecClassify)
    cl_text,        \* metrics["text"]: a sequence of code points
    cl_filename,    \* metrics["filename"]
    cl_pc,          \* "idle" | "call" | "generating" | "done"
    cl_result,      \* what the call returned, with the path it took
    \* the normalisation of embeddings (SpecNorm)
    nm_fn,          \* "generate_embedding" | "generate_embeddings_batch"
    nm_pooled,      \* the mean-pooled vectors of the call, one per text
    nm_out,         \* the vectors appended so far / returned
    nm_pc,          \* "idle" | "normalising" | "returned"
    \* inference calls against the shared model in one process (SpecInfer)
    inf_home,       \* the device the model was loaded on
    inf_device,     \* the device the model is on now
    inf_loop,       \* the inference call the event-loop thread is inside
    inf_thread,     \* the _generate_text call started with asyncio.to_thread
    inf_moved,      \* a generation saw the model on another device than its inputs
    \* documents of several users and what the endpoints show (SpecOwner)
    ow_owner,       \* uploaded_by of every document, "none" before its upload
    ow_indexed,     \* the documents with rows in document_chunks
    ow_response     \* the last response: endpoint, user and documents shown

chunkVars == <<ct_text, ct_size, ct_overlap, ct_start, ct_chunks, ct_pc>>

embedVars == <<eb_n, eb_arg, eb_loaded, eb_device, eb_vram, eb_sizes, eb_i, eb_out,
               eb_freed, eb_pc>>

modelVars == <<q_model, q_tokenizer, rag_qwen, q_loads, q_threw, m_calls, m_last>>

ingestVars == <<docs, rows, up_resp, up_dispatch, up_metrics, queue, delivered,
                task, bg, degraded>>

deviceVars == <<dv_setting, dv_cuda, dv_mps, dv_results>>

storeVars == <<st_fn, st_n, st_i, st_embs, st_session, st_table, st_skipped, st_pc>>

trashVars == <<tr_docs, tr_chunks, tr_ops, tr_result>>

searchVars == <<sq_endpoint, sq_chunks, sq_pc, sq_result, sq_response>>

classifyVars == <<cl_text, cl_filename, cl_pc, cl_result>>

normVars == <<nm_fn, nm_pooled, nm_out, nm_pc>>

inferVars == <<inf_home, inf_device, inf_loop, inf_thread, inf_moved>>

ownerVars == <<ow_owner, ow_indexed, ow_response>>

vars == <<chunkVars, embedVars, modelVars, ingestVars, deviceVars, storeVars, trashVars,
          searchVars, classifyVars, normVars, inferVars, ownerVars>>

\* What the actions of one component leave alone: the other components
notChunk == <<embedVars, modelVars, ingestVars, deviceVars, storeVars, trashVars,
    searchVars, classifyVars, normVars, inferVars, ownerVars>>
notEmbed == <<chunkVars, modelVars, ingestVars, deviceVars, storeVars, trashVars,
    searchVars, classifyVars, normVars, inferVars, ownerVars>>
notModel == <<chunkVars, embedVars, ingestVars, deviceVars, storeVars, trashVars,
    searchVars, classifyVars, normVars, inferVars, ownerVars>>
notIngest == <<chunkVars, embedVars, modelVars, deviceVars, storeVars, trashVars,
    searchVars, classifyVars, normVars, inferVars, ownerVars>>
notDevice == <<chunkVars, embedVars, modelVars, ingestVars, storeVars, trashVars,
    searchVars, classifyVars, normVars, inferVars, ownerVars>>
\* a call that stores chunks runs generate_embeddings_batch
notStore == <<chunkVars, modelVars, ingestVars, deviceVars, trashVars,
    searchVars, classifyVars, normVars, inferVars, ownerVars>>
notTrash == <<chunkVars, embedVars, modelVars, ingestVars, deviceVars, storeVars,
    searchVars, classifyVars, normVars, inferVars, ownerVars>>
notSearch == <<chunkVars, embedVars, modelVars, ingestVars, deviceVars, storeVars,
    trashVars, classifyVars, normVars, inferVars, ownerVars>>
notClassify == <<chunkVars, embedVars, modelVars, ingestVars, deviceVars, storeVars,
    trashVars, searchVars, normVars, inferVars, ownerVars>>
notNorm == <<chunkVars, embedVars, modelVars, ingestVars, deviceVars, storeVars,
    trashVars, searchVars, classifyVars, inferVars, ownerVars>>
notInfer == <<chunkVars, embedVars, modelVars, ingestVars, deviceVars, storeVars,
    trashVars, searchVars, classifyVars, normVars, ownerVars>>
notOwner == <<chunkVars, embedVars, modelVars, ingestVars, deviceVars, storeVars,
    trashVars, searchVars, classifyVars, normVars, inferVars>>

----------------------------------------------------------------------------
\* Bounds of the model

\* longest text handed to chunk_text
MaxLen == 4
\* largest chunk_size configuration
MaxChunk == 3
\* largest chunk_overlap configuration (reaches and exceeds chunk_size)
MaxOverlap == 3
\* largest number of texts handed to generate_embeddings_batch
MaxTexts == 3
\* largest batch_size a caller passes to generate_embeddings_batch
MaxBatch == 8
\* deepest recursion of generate_embeddings_batch the interpreter allows
\* before it raises RecursionError (sys.getrecursionlimit() frames)
MaxDepth == 8
\* largest number of entry-point calls into the model lifecycle
MaxCalls == 4
\* number of upload requests (each draws a fresh document id)
MaxDocs == 1
\* longest uploaded text, in windows of the task's chunker
MaxWindows == 2
\* deliveries of one queued task (the queue delivers at least once)
MaxDeliveries == 2
\* calls of _get_best_device in one process
MaxDeviceCalls == 3
\* documents of the trash model
MaxTrashDocs == 2
\* requests that change a table in the trash model
MaxTrashOps == 5
\* parent documents of the chunks a query retrieves
MaxSearchDocs == 3
\* chunks a query retrieves
MaxRetrieved == 3
MaxWords == 3
MaxComponent == 2
MaxLineLen == 5
MaxOwnedDocs == 3
MaxVectors == 2

----------------------------------------------------------------------------
\* Helpers

Max(a, b) == IF a >= b THEN a ELSE b
Min(a, b) == IF a <= b THEN a ELSE b

\* Characters of the modelled texts: a letter, the two whitespace characters
\* the break list mentions, and two of the sentence-ending marks.
Chars == {"a", " ", "\n", ".", "!"}

\* All texts of length 0..n
RECURSIVE TextsUpTo(_)
TextsUpTo(n) ==
    IF n = 0 THEN {<<>>}
    ELSE LET shorter == TextsUpTo(n - 1)
         IN shorter \cup {Append(t, c) : t \in {s \in shorter : Len(s) = n - 1}, c \in Chars}

\* Python's text[a:b] for 0 <= a (0-based, b clamped to len(text))
PySlice(text, a, b) ==
    LET hi == Min(b, Len(text))
    IN IF a >= hi \/ a < 0 THEN <<>> ELSE SubSeq(text, a + 1, hi)

\* str.isspace for the characters of the model
IsSpace(c) == c \in {" ", "\n"}

\* Python's str.strip(): leading and trailing whitespace removed
RECURSIVE FirstSolid(_, _)
FirstSolid(s, i) ==
    IF i > Len(s) THEN 0 ELSE IF ~IsSpace(s[i]) THEN i ELSE FirstSolid(s, i + 1)

RECURSIVE LastSolid(_, _)
LastSolid(s, i) ==
    IF i < 1 THEN 0 ELSE IF ~IsSpace(s[i]) THEN i ELSE LastSolid(s, i - 1)

Strip(s) ==
    LET lo == FirstSolid(s, 1)
    IN IF lo = 0 THEN <<>> ELSE SubSeq(s, lo, LastSolid(s, Len(s)))

\* Python's text.rfind(sub, start, end): the highest 0-based index i with
\* start <= i, i + len(sub) <= end and text[i:i+len(sub)] = sub; -1 if none
RFind(text, sub, start, end) ==
    LET hi == Min(end, Len(text))
        hits == {i \in start..(hi - Len(sub)) : PySlice(text, i, i + Len(sub)) = sub}
    IN IF hits = {} THEN -1 ELSE CHOOSE i \in hits : \A j \in hits : i >= j

\* The separators chunk_text looks for, in the order it tries them
BreakChars == << <<"\n", "\n">>, <<"\n">>, <<".", " ">>, <<"!", " ">>, <<"?", " ">> >>

\* The end of the window that starts at `start`: start + chunk_size, moved
\* back to just after the first separator of the list found in the window
\* when the window does not reach the end of the text
CutEnd(text, start, size) ==
    LET end == start + size
    IN IF end < Len(text)
       THEN LET found == {k \in 1..Len(BreakChars) : RFind(text, BreakChars[k], start, end) # -1}
            IN IF found = {} THEN end
               ELSE LET k == CHOOSE x \in found : \A y \in found : x <= y
                    IN RFind(text, BreakChars[k], start, end) + Len(BreakChars[k])
       ELSE end

\* The chunk record appended for a non-blank window
NewChunkIdBug(chunks, start) == start
NewChunkId(chunks, start) == Len(chunks)

NewChunk(text, start, end, chunks) ==
    [text      |-> Strip(PySlice(text, start, end)),
     start_pos |-> start,
     end_pos   |-> end,
     chunk_id  |-> NewChunkId(chunks, start)]

\* `chunks` after the window [start, end): a chunk is appended unless the
\* stripped window is empty
ChunksAfterWindow(text, start, end, chunks) ==
    IF Strip(PySlice(text, start, end)) # <<>>
    THEN Append(chunks, NewChunk(text, start, end, chunks))
    ELSE chunks

\* The start of the next window
NextStartBug(start, end, overlap) == end - overlap
NextStart(start, end, overlap) == Max(start + 1, end - overlap)

----------------------------------------------------------------------------
\* DocumentProcessor.chunk_text

ChunkInit ==
    /\ ct_text \in TextsUpTo(MaxLen)
    /\ ct_size \in 1..MaxChunk
    /\ ct_overlap \in 0..MaxOverlap
    /\ ct_start = 0
    /\ ct_chunks = <<>>
    /\ ct_pc = "call"

\* Calls with chunk_overlap < chunk_size on texts of letters and line
\* breaks of up to MaxLineLen characters
ChunkOverlapInit ==
    /\ ct_text \in UNION {[1..n -> {"a", "\n"}] : n \in 0..MaxLineLen}
    /\ ct_size \in 1..MaxChunk
    /\ ct_overlap \in 0..(ct_size - 1)
    /\ ct_start = 0
    /\ ct_chunks = <<>>
    /\ ct_pc = "call"

\* `if not text.strip(): return []`, else enter the loop with start = 0
ChunkTextEnter ==
    /\ ct_pc = "call"
    /\ ct_pc' = IF Strip(ct_text) = <<>> THEN "done" ELSE "loop"
    /\ UNCHANGED <<ct_text, ct_size, ct_overlap, ct_start, ct_chunks>>
    /\ UNCHANGED notChunk

\* One iteration of `while start < len(text)`
ChunkTextLoop ==
    /\ ct_pc = "loop"
    /\ ct_start < Len(ct_text)
    /\ LET end == CutEnd(ct_text, ct_start, ct_size)
       IN /\ ct_chunks' = ChunksAfterWindow(ct_text, ct_start, end, ct_chunks)
          /\ ct_start' = NextStart(ct_start, end, ct_overlap)
    /\ UNCHANGED <<ct_text, ct_size, ct_overlap, ct_pc>>
    /\ UNCHANGED notChunk

\* The loop condition fails: `return chunks`
ChunkTextReturn ==
    /\ ct_pc = "loop"
    /\ ct_start >= Len(ct_text)
    /\ ct_pc' = "done"
    /\ UNCHANGED <<ct_text, ct_size, ct_overlap, ct_start, ct_chunks>>
    /\ UNCHANGED notChunk

ChunkNext == ChunkTextEnter \/ ChunkTextLoop \/ ChunkTextReturn

\* chunk_text as one function: the loop run from `start` with `chunks`
RECURSIVE ChunkTextFrom(_, _, _, _, _)
ChunkTextFrom(text, size, overlap, start, chunks) ==
    IF start >= Len(text) THEN chunks
    ELSE LET end == CutEnd(text, start, size)
         IN ChunkTextFrom(text, size, overlap, NextStart(start, end, overlap),
                          ChunksAfterWindow(text, start, end, chunks))

ChunkText(text, size, overlap) ==
    IF Strip(text) = <<>> THEN <<>> ELSE ChunkTextFrom(text, size, overlap, 0, <<>>)

\* No call of chunk_text in progress
ChunkIdle ==
    /\ ct_text = <<>>
    /\ ct_size = 1
    /\ ct_overlap = 0
    /\ ct_start = 0
    /\ ct_chunks = <<>>
    /\ ct_pc = "done"

----------------------------------------------------------------------------
\* RAGService.generate_embeddings_batch

\* The batch size chosen when the caller passes batch_size=None
AutoBatchSize(device, vram, n) ==
    IF device = "cuda"
    THEN IF vram >= 40 THEN Min(128, Max(32, n \div 5))
         ELSE IF vram >= 16 THEN Min(32, Max(8, n \div 10))
         ELSE IF vram >= 8 THEN Min(16, Max(4, n \div 15))
         ELSE Min(4, Max(2, n \div 20))  \* below 8 GB, or the query threw
    ELSE IF device = "mps" THEN Min(16, Max(4, n \div 10))
    ELSE Min(8, Max(2, n \div 20))

\* The batch size of the recursive call after an out-of-memory signal
RetryBatchSizeBug(batch_size) == Max(1, batch_size - 1)
RetryBatchSize(batch_size) == Max(1, batch_size \div 2)

\* texts[i:i + batch_size], as text numbers
BatchTexts(n, i, batch_size) ==
    [k \in 1..(Min(i + batch_size, n) - i) |-> i + k]

EmbedBatchSize == eb_sizes[Len(eb_sizes)]

EmbedInit ==
    /\ eb_n \in 1..MaxTexts
    /\ eb_arg \in 0..MaxBatch
    /\ eb_loaded \in BOOLEAN
    /\ eb_device \in {"cuda", "mps", "cpu"}
    /\ eb_vram \in IF eb_device = "cuda" /\ eb_arg = 0 THEN {-1, 4, 8, 16, 40} ELSE {-1}
    /\ eb_sizes = <<>>
    /\ eb_i = 0
    /\ eb_out = <<>>
    /\ eb_freed = 0
    /\ eb_pc = "call"

EmbedIdle ==
    /\ eb_n = 0
    /\ eb_arg = 0
    /\ eb_loaded = FALSE
    /\ eb_device = "cpu"
    /\ eb_vram = -1
    /\ eb_sizes = <<>>
    /\ eb_i = 0
    /\ eb_out = <<>>
    /\ eb_freed = 0
    /\ eb_pc = "idle"

\* Entry of the outermost call: the model check and the choice of batch_size
EmbedEnter ==
    /\ eb_pc = "call"
    /\ IF ~eb_loaded
       THEN /\ eb_pc' = "raised"      \* RuntimeError("Qwen model not loaded")
            /\ UNCHANGED eb_sizes
       ELSE /\ eb_pc' = "loop"
            /\ eb_sizes' = <<IF eb_arg = 0
                             THEN AutoBatchSize(eb_device, eb_vram, eb_n)
                             ELSE eb_arg>>
    /\ UNCHANGED <<eb_n, eb_arg, eb_loaded, eb_device, eb_vram, eb_i, eb_out, eb_freed>>
    /\ UNCHANGED notEmbed

\* One iteration of `for i in range(0, len(texts), batch_size)` whose forward
\* pass succeeds: one embedding per text of the batch is appended
EmbedForwardOk ==
    /\ eb_pc = "loop"
    /\ eb_i < eb_n
    /\ eb_out' = eb_out \o BatchTexts(eb_n, eb_i, EmbedBatchSize)
    /\ eb_i' = eb_i + EmbedBatchSize
    /\ UNCHANGED <<eb_n, eb_arg, eb_loaded, eb_device, eb_vram, eb_sizes, eb_freed, eb_pc>>
    /\ UNCHANGED notEmbed

\* `embeddings` of the call made after an out-of-memory signal: the new call
\* starts with an empty list, what the interrupted frame had collected is
\* dropped with the frame
EmbeddingsAfterRetryBug(out) == out
EmbeddingsAfterRetry(out) == <<>>

\* The forward pass on the GPU raises torch.cuda.OutOfMemoryError: the cache
\* is emptied and the whole call is made again with RetryBatchSize; the
\* result of that call is this call's result. At the interpreter's
\* recursion limit the call raises RecursionError instead.
EmbedForwardOOM ==
    /\ eb_pc = "loop"
    /\ eb_i < eb_n
    /\ eb_device = "cuda"
    /\ eb_freed' = eb_freed + 1
    /\ IF Len(eb_sizes) >= MaxDepth
       THEN /\ eb_pc' = "raised"
            /\ UNCHANGED <<eb_sizes, eb_i, eb_out>>
       ELSE /\ eb_sizes' = Append(eb_sizes, RetryBatchSize(EmbedBatchSize))
            /\ eb_i' = 0
            /\ eb_out' = EmbeddingsAfterRetry(eb_out)
            /\ UNCHANGED eb_pc
    /\ UNCHANGED <<eb_n, eb_arg, eb_loaded, eb_device, eb_vram>>
    /\ UNCHANGED notEmbed

\* The tokenizer or the forward pass raises any other exception: it is
\* logged and re-raised by every frame
EmbedForwardError ==
    /\ eb_pc = "loop"
    /\ eb_i < eb_n
    /\ eb_pc' = "raised"
    /\ UNCHANGED <<eb_n, eb_arg, eb_loaded, eb_device, eb_vram, eb_sizes, eb_i, eb_out, eb_freed>>
    /\ UNCHANGED notEmbed

\* The loop is exhausted: `return embeddings`
EmbedReturn ==
    /\ eb_pc = "loop"
    /\ eb_i >= eb_n
    /\ eb_pc' = "returned"
    /\ UNCHANGED <<eb_n, eb_arg, eb_loaded, eb_device, eb_vram, eb_sizes, eb_i, eb_out, eb_freed>>
    /\ UNCHANGED notEmbed

EmbedNext == EmbedEnter \/ EmbedForwardOk \/ EmbedForwardOOM \/ EmbedForwardError \/ EmbedReturn

----------------------------------------------------------------------------
\* QwenService._load_model, _ensure_model_loaded, classify_metrics_from_rag
\* and RAGService._ensure_qwen_loaded

\* How one execution of _load_model can end:
\*   "ok"              tokenizer and weights loaded
\*   "weights_throw"   AutoModelForCausalLM.from_pretrained threw (or a later
\*                     step inside the try block did)
\*   "tokenizer_throw" Qwen2Tokenizer and AutoTokenizer both threw
\*   "setup_throw"     a statement before the try block threw
LoadOutcomes == {"ok", "weights_throw", "tokenizer_throw", "setup_throw"}

\* How the generation started by classify_metrics_from_rag can end
GenOutcomes == {"timeout", "error", "no_json", "bad_json", "json"}

\* _ensure_model_loaded's test before it calls _load_model
NeedsLoad(model, tokenizer) ==
    model = "none" \/ tokenizer = "none"

\* self._model after an execution of _load_model with outcome o
ModelAfterLoad(model, o) ==
    CASE o = "ok" -> "loaded"
      [] o = "weights_throw" -> "none"
      [] o = "tokenizer_throw" -> "none"
      [] o = "setup_throw" -> model

\* self._tokenizer after an execution of _load_model with outcome o
TokenizerAfterLoad(tokenizer, o) ==
    CASE o = "ok" -> "loaded"
      [] o = "weights_throw" -> "loaded"
      [] o = "tokenizer_throw" -> tokenizer
      [] o = "setup_throw" -> tokenizer

\* Whether an exception leaves _load_model (and, re-raised, _ensure_model_loaded)
LoadRaises(o) == o = "setup_throw"

\* The result of classify_metrics_from_rag when _ensure_model_loaded raised
\* (ensured = FALSE), and else by the state of the model and the outcome g
\* of the generation
ClassifyResult(ensured, model, tokenizer, g) ==
    IF ~ensured
    THEN [classification |-> "fallback", processed |-> FALSE, error |-> "Model not available"]
    ELSE IF model = "none" \/ tokenizer = "none"
    THEN [classification |-> "fallback", processed |-> FALSE, error |-> "Model not loaded"]
    ELSE CASE g = "timeout" ->
                [classification |-> "fallback", processed |-> FALSE, error |-> "Generation timeout"]
           [] g = "error" ->
                [classification |-> "fallback", processed |-> FALSE, error |-> "generation error"]
           [] g = "no_json" ->
                [classification |-> "fallback_without_tags", processed |-> TRUE, error |-> "none"]
           [] g = "bad_json" ->
                [classification |-> "fallback", processed |-> TRUE, error |-> "none"]
           [] g = "json" ->
                [classification |-> "model", processed |-> TRUE, error |-> "none"]

NoCall == [op |-> "none", loaded |-> FALSE, outcome |-> "none", raised |-> FALSE,
           unavailable |-> FALSE,
           result |-> [classification |-> "none", processed |-> FALSE, error |-> "none"]]

ModelInit ==
    /\ q_model = "none"
    /\ q_tokenizer = "none"
    /\ rag_qwen = FALSE
    /\ q_loads = 0
    /\ q_threw = FALSE
    /\ m_calls = 0
    /\ m_last = NoCall

ModelIdle == ModelInit

\* The part the three entry points share: _ensure_model_loaded with the
\* outcome o of the _load_model it may run. `loads` is TRUE when it runs it.
EnsureEffect(o, loads) ==
    /\ q_model' = IF loads THEN ModelAfterLoad(q_model, o) ELSE q_model
    /\ q_tokenizer' = IF loads THEN TokenizerAfterLoad(q_tokenizer, o) ELSE q_tokenizer
    /\ q_loads' = IF loads THEN q_loads + 1 ELSE q_loads
    /\ q_threw' = IF loads THEN o = "weights_throw" ELSE q_threw

\* QwenService._ensure_model_loaded()
EnsureModelLoaded ==
    /\ m_calls < MaxCalls
    /\ \E o \in LoadOutcomes :
         LET loads == NeedsLoad(q_model, q_tokenizer)
         IN /\ EnsureEffect(o, loads)
            /\ m_last' = [NoCall EXCEPT !.op = "ensure_model_loaded",
                                        !.loaded = loads,
                                        !.outcome = IF loads THEN o ELSE "none",
                                        !.raised = loads /\ LoadRaises(o)]
    /\ m_calls' = m_calls + 1
    /\ UNCHANGED rag_qwen
    /\ UNCHANGED notModel

\* RAGService._ensure_qwen_loaded()
EnsureQwenLoaded ==
    /\ m_calls < MaxCalls
    /\ \E o \in LoadOutcomes :
         LET loads == ~rag_qwen /\ NeedsLoad(q_model, q_tokenizer)
         IN /\ EnsureEffect(o, loads)
            /\ m_last' = [NoCall EXCEPT !.op = "ensure_qwen_loaded",
                                        !.loaded = loads,
                                        !.outcome = IF loads THEN o ELSE "none",
                                        !.raised = loads /\ LoadRaises(o)]
    /\ rag_qwen' = TRUE
    /\ m_calls' = m_calls + 1
    /\ UNCHANGED notModel

\* QwenService.classify_metrics_from_rag(metrics)
ClassifyMetricsFromRag ==
    /\ m_calls < MaxCalls
    /\ \E o \in LoadOutcomes, g \in GenOutcomes :
         LET loads == NeedsLoad(q_model, q_tokenizer)
             ensured == ~(loads /\ LoadRaises(o))
         IN /\ EnsureEffect(o, loads)
            /\ m_last' = [op |-> "classify_metrics_from_rag",
                          loaded |-> loads,
                          outcome |-> IF loads THEN o ELSE "none",
                          raised |-> FALSE,
                          unavailable |-> q_threw /\ q_model = "none",
                          result |-> ClassifyResult(ensured, q_model', q_tokenizer', g)]
    /\ m_calls' = m_calls + 1
    /\ UNCHANGED rag_qwen
    /\ UNCHANGED notModel

ModelNext == EnsureModelLoaded \/ EnsureQwenLoaded \/ ClassifyMetricsFromRag

----------------------------------------------------------------------------
\* Document ingestion: upload_document, ProcessDocumentRAGTask.run_async,
\* RAGService.process_document_for_metrics, add_document_chunks and
\* save_metrics_to_postgres

\* DocumentProcessor's default chunk_size and chunk_overlap, which
\* process_document_for_metrics uses
DefaultChunkSize == 500
DefaultChunkOverlap == 100
\* chunk_size and chunk_overlap of the queued task's own chunker
TaskChunkSize == 500
TaskChunkOverlap == 100
\* the queued task keeps a window only if its stripped length exceeds this
MinChunkChars == 50
\* the queued task gives up on a text whose stripped length is below this
MinTextChars == 10

DocIds == 1..MaxDocs

\* A text of n letters
TextOf(n) == [i \in 1..n |-> "a"]

\* The uploaded texts: empty, too short for the task, shorter than a window,
\* and one text for every further window of the task's chunker
TextLens ==
    {0, 5, 60} \cup {(TaskChunkSize - TaskChunkOverlap) * k + 60 : k \in 1..(MaxWindows - 1)}

UploadTexts == {TextOf(n) : n \in TextLens}

\* `title or file.filename`: one name per upload request, so that a second
\* upload can repeat a name or not
Titles == {TextOf(k) : k \in DocIds}

NoDoc == [present |-> FALSE, title |-> <<>>, text |-> <<>>, status |-> "none"]

NoMetrics == [captured |-> FALSE, extracted |-> FALSE, rag_ok |-> FALSE, chunks |-> <<>>]

NoTask == [runs |-> 0, clean |-> 0,
           last |-> [success |-> FALSE, error |-> "none", chunks_created |-> 0]]

\* DocumentProcessor().chunk_text of every text a request can extract
DefaultChunksOf ==
    [text \in UploadTexts \cup Titles |->
        ChunkText(text, DefaultChunkSize, DefaultChunkOverlap)]

\* metrics["chunks"] as the upload request builds it: the chunks of
\* chunk_text with text, start_pos and end_pos only, or [] when
\* process_document_for_metrics raised
MetricsChunks(text, ragOk) ==
    IF ~ragOk THEN <<>>
    ELSE LET chunks == DefaultChunksOf[text]
         IN [k \in 1..Len(chunks) |->
                [text |-> chunks[k].text,
                 start_pos |-> chunks[k].start_pos,
                 end_pos |-> chunks[k].end_pos]]

\* The chunker written out in the queued task:
\* for i in range(0, len(text), chunk_size - chunk_overlap), window
\* text[i:i + chunk_size], kept if len(window.strip()) > 50
RECURSIVE TaskChunksFrom(_, _, _)
TaskChunksFrom(text, i, chunks) ==
    IF i >= Len(text) THEN chunks
    ELSE LET window == PySlice(text, i, i + TaskChunkSize)
             kept == IF Len(Strip(window)) > MinChunkChars
                     THEN Append(chunks, [text |-> window,
                                          start_pos |-> i,
                                          end_pos |-> Min(i + TaskChunkSize, Len(text))])
                     ELSE chunks
         IN TaskChunksFrom(text, i + (TaskChunkSize - TaskChunkOverlap), kept)

TaskChunks(text) == TaskChunksFrom(text, 0, <<>>)

\* The task's chunks of every text a document can hold
TaskChunksOf == [text \in UploadTexts \cup {<<>>} |-> TaskChunks(text)]

\* chunk_data['chunk_id'] raises KeyError unless the chunk carries the key
ChunkHasId(chunk) == "chunk_id" \in DOMAIN chunk

\* RAGService.add_document_chunks: one embedding and one DocumentChunk per
\* chunk, then commit; any exception rolls everything back and is re-raised.
\* `run` numbers the call, for the fresh uuid4 of every new row.
AddDocumentChunks(d, chunks, run, embedOk, commitOk) ==
    LET ok == /\ embedOk
              /\ \A k \in 1..Len(chunks) : ChunkHasId(chunks[k])
              /\ commitOk
    IN [raised |-> ~ok,
        error |-> IF ~embedOk THEN "embedding"
                  ELSE IF \E k \in 1..Len(chunks) : ~ChunkHasId(chunks[k]) THEN "KeyError chunk_id"
                  ELSE IF ~commitOk THEN "commit" ELSE "none",
        rows |-> IF ok
                 THEN {[id |-> <<d, run, k>>,
                        document_id |-> d,
                        chunk_id |-> chunks[k].chunk_id,
                        text |-> chunks[k].text,
                        start_pos |-> chunks[k].start_pos,
                        end_pos |-> chunks[k].end_pos] : k \in 1..Len(chunks)}
                 ELSE {}]

\* The chunk_id save_metrics_to_postgres stores for the i-th chunk
\* (i counts from 0, from enumerate)
SavedChunkIdBug(i) == 0
SavedChunkId(i) == i

\* RAGService.save_metrics_to_postgres: nothing to do without chunks; else
\* one batch embedding, one DocumentChunk per chunk, then commit; an
\* exception rolls everything back and is re-raised. (The statements inside
\* the per-chunk try block cannot raise for the values they are given here.)
\* The call is numbered 0 for the fresh uuid4 of every new row.
SaveMetricsToPostgres(d, chunks, embedOk, commitOk) ==
    IF chunks = <<>> THEN [result |-> "no_chunks", rows |-> {}]
    ELSE IF ~(embedOk /\ commitOk) THEN [result |-> "raised", rows |-> {}]
    ELSE [result |-> "saved",
          rows |-> {[id |-> <<d, 0, k>>,
                     document_id |-> d,
                     chunk_id |-> SavedChunkId(k - 1),
                     text |-> chunks[k].text,
                     start_pos |-> chunks[k].start_pos,
                     end_pos |-> chunks[k].end_pos] : k \in 1..Len(chunks)}]

\* Whether upload_document has bound the name background_save_rag_metrics
\* when it reaches background_tasks.add_task(background_save_rag_metrics):
\* the function is defined inside the except block of the dispatch only
FallbackDefined(dispatchOk) == ~dispatchOk

\* The table before the uploads of the model: one chunk of a document that
\* was ingested earlier (document 0, which no request of the model names)
EarlierRows ==
    {[id |-> <<0, 0, 0>>, document_id |-> 0, chunk_id |-> 0, text |-> TextOf(60),
      start_pos |-> 0, end_pos |-> 60]}

IngestInit ==
    /\ docs = [d \in DocIds |-> NoDoc]
    /\ rows = EarlierRows
    /\ up_resp = [d \in DocIds |-> "none"]
    /\ up_dispatch = [d \in DocIds |-> "none"]
    /\ up_metrics = [d \in DocIds |-> NoMetrics]
    /\ queue = [d \in DocIds |-> 0]
    /\ delivered = [d \in DocIds |-> 0]
    /\ task = [d \in DocIds |-> NoTask]
    /\ bg = [d \in DocIds |-> "none"]
    /\ degraded = {}

IngestIdle == IngestInit

\* What can go wrong around one run of the queued task: nothing, the
\* download or the extraction, the commit of the classification, the
\* embedding of a chunk, the commit of the chunks
TaskEnvs == {"ok", "load_fail", "classify_commit_fail", "embed_fail", "chunk_commit_fail"}

\* What can go wrong around one run of the deferred task of the request
BackgroundEnvs == {"ok", "embed_fail", "commit_fail"}

TaskFailureBug(error) == [success |-> TRUE, error |-> "none", chunks_created |-> 0]
TaskFailure(error) == [success |-> FALSE, error |-> error, chunks_created |-> 0]
TaskSuccess(n) == [success |-> TRUE, error |-> "none", chunks_created |-> n]

\* POST /upload, the whole handler, for the request that draws document id d
Upload ==
    \E d \in DocIds, title \in Titles, text \in UploadTexts,
       storageOk, extractOk, ragOk, commitOk, dispatchOk \in BOOLEAN :
        /\ up_resp[d] = "none"
        /\ \A e \in DocIds : e < d => up_resp[e] # "none"
        /\ LET duplicate == \E e \in DocIds : docs[e].present /\ docs[e].title = title
               \* `extracted_text`, the title when load_file raised
               extracted == IF extractOk THEN text ELSE title
           IN IF duplicate
              THEN /\ up_resp' = [up_resp EXCEPT ![d] = "409"]
                   /\ UNCHANGED <<docs, up_dispatch, up_metrics, queue, delivered, bg, degraded>>
              ELSE IF ~storageOk \/ ~commitOk
              THEN /\ up_resp' = [up_resp EXCEPT ![d] = "500"]
                   /\ UNCHANGED <<docs, up_dispatch, up_metrics, queue, delivered, bg, degraded>>
              ELSE /\ docs' = [docs EXCEPT ![d] = [present |-> TRUE, title |-> title,
                                                   text |-> text, status |-> "processed"]]
                   /\ up_dispatch' = [up_dispatch EXCEPT
                                          ![d] = IF dispatchOk THEN "queued" ELSE "failed"]
                   /\ queue' = [queue EXCEPT ![d] = IF dispatchOk THEN 1 ELSE 0]
                   /\ delivered' = [delivered EXCEPT ![d] = IF dispatchOk THEN 1 ELSE 0]
                   /\ degraded' = IF dispatchOk THEN degraded ELSE degraded \cup {d}
                   \* the closure of background_save_rag_metrics captures `metrics`
                   /\ up_metrics' = IF dispatchOk THEN up_metrics
                                    ELSE [up_metrics EXCEPT
                                             ![d] = [captured |-> TRUE,
                                                     extracted |-> extractOk,
                                                     rag_ok |-> ragOk,
                                                     chunks |-> MetricsChunks(extracted, ragOk)]]
                   \* add_task(background_save_rag_metrics): UnboundLocalError
                   \* unless the name is bound, and then no response is built
                   /\ IF FallbackDefined(dispatchOk)
                      THEN /\ bg' = [bg EXCEPT ![d] = "pending"]
                           /\ up_resp' = [up_resp EXCEPT ![d] = "200"]
                      ELSE /\ UNCHANGED bg
                           /\ up_resp' = [up_resp EXCEPT ![d] = "500"]
        /\ UNCHANGED <<rows, task>>
        /\ UNCHANGED notIngest

\* One execution of ProcessDocumentRAGTask.run_async(document_id = d)
RunTask(d) ==
    /\ queue[d] > 0
    /\ queue' = [queue EXCEPT ![d] = @ - 1]
    /\ \E env \in TaskEnvs :
         LET doc == docs[d]
             chunks == TaskChunksOf[doc.text]
             added == AddDocumentChunks(d, chunks, task[d].runs + 1,
                                        env # "embed_fail", env # "chunk_commit_fail")
             reaches == /\ doc.present
                        /\ env \notin {"load_fail", "classify_commit_fail"}
                        /\ Len(Strip(doc.text)) >= MinTextChars
                        /\ chunks # <<>>
             result == IF ~doc.present THEN TaskFailure("Document not found")
                       ELSE IF env = "load_fail" THEN TaskFailure("load")
                       ELSE IF Len(Strip(doc.text)) < MinTextChars
                       THEN TaskFailure("No text content extracted")
                       ELSE IF env = "classify_commit_fail" THEN TaskFailure("commit")
                       ELSE IF chunks = <<>> THEN TaskSuccess(0)
                       ELSE IF added.raised THEN TaskFailure(added.error)
                       ELSE TaskSuccess(Len(chunks))
         IN /\ rows' = IF reaches THEN rows \cup added.rows ELSE rows
            /\ task' = [task EXCEPT ![d] = [runs |-> @.runs + 1,
                                            clean |-> @.clean + (IF env = "ok" THEN 1 ELSE 0),
                                            last |-> result]]
    /\ UNCHANGED <<docs, up_resp, up_dispatch, up_metrics, delivered, bg, degraded>>
    /\ UNCHANGED notIngest

\* The broker delivers the queued task of document d once more
Redeliver(d) ==
    /\ up_dispatch[d] = "queued"
    /\ delivered[d] < MaxDeliveries
    /\ delivered' = [delivered EXCEPT ![d] = @ + 1]
    /\ queue' = [queue EXCEPT ![d] = @ + 1]
    /\ UNCHANGED <<docs, rows, up_resp, up_dispatch, up_metrics, task, bg, degraded>>
    /\ UNCHANGED notIngest

\* background_save_rag_metrics of the request that created document d, run
\* after the response was sent: save_metrics_to_postgres in a session of its
\* own; an exception is logged and swallowed
RunBackground(d) ==
    /\ bg[d] = "pending"
    /\ \E env \in BackgroundEnvs :
         LET saved == SaveMetricsToPostgres(d, up_metrics[d].chunks,
                                            env # "embed_fail", env # "commit_fail")
         IN /\ rows' = rows \cup saved.rows
            /\ bg' = [bg EXCEPT ![d] = saved.result]
    /\ UNCHANGED <<docs, up_resp, up_dispatch, up_metrics, queue, delivered, task, degraded>>
    /\ UNCHANGED notIngest

IngestNext ==
    \/ Upload
    \/ \E d \in DocIds : RunTask(d)
    \/ \E d \in DocIds : Redeliver(d)
    \/ \E d \in DocIds : RunBackground(d)

----------------------------------------------------------------------------
\* QwenService._get_best_device

\* Values of settings.QWEN_DEVICE: the four documented ones, two of them
\* also in upper case, the empty string and an unknown name
DeviceSettings == {"auto", "AUTO", "cpu", "cuda", "CUDA", "mps", "", "tpu"}

\* str.lower() on the settings of the model
Lower(setting) ==
    CASE setting = "AUTO" -> "auto"
      [] setting = "CUDA" -> "cuda"
      [] OTHER -> setting

\* Auto-detection: the first available of cuda, mps, cpu
AutoDevice(cuda, mps) ==
    IF cuda THEN "cuda" ELSE IF mps THEN "mps" ELSE "cpu"

\* The device chosen for a forced setting: the requested device if it is
\* cpu or is available, otherwise cpu
ForcedDeviceBug(device, cuda, mps) ==
    IF device = "cpu" THEN "cpu"
    ELSE IF device = "cuda" /\ cuda THEN "cuda"
    ELSE IF device = "mps" /\ mps THEN "mps"
    ELSE AutoDevice(cuda, mps)
ForcedDevice(device, cuda, mps) ==
    IF device = "cpu" THEN "cpu"
    ELSE IF device = "cuda" /\ cuda THEN "cuda"
    ELSE IF device = "mps" /\ mps THEN "mps"
    ELSE "cpu"

GetBestDevice(setting, cuda, mps) ==
    IF setting # "" /\ Lower(setting) # "auto"
    THEN ForcedDevice(Lower(setting), cuda, mps)
    ELSE AutoDevice(cuda, mps)

DeviceInit ==
    /\ dv_setting \in DeviceSettings
    /\ dv_cuda \in BOOLEAN
    /\ dv_mps \in BOOLEAN
    /\ dv_results = <<>>

DeviceIdle ==
    /\ dv_setting = "auto"
    /\ dv_cuda = FALSE
    /\ dv_mps = FALSE
    /\ dv_results = <<>>

\* One call of _get_best_device()
CallGetBestDevice ==
    /\ Len(dv_results) < MaxDeviceCalls
    /\ dv_results' = Append(dv_results, GetBestDevice(dv_setting, dv_cuda, dv_mps))
    /\ UNCHANGED <<dv_setting, dv_cuda, dv_mps>>
    /\ UNCHANGED notDevice

DeviceNext == CallGetBestDevice

----------------------------------------------------------------------------
\* RAGService.add_document_chunks and RAGService.save_metrics_to_postgres,
\* statement by statement, with the generate_embeddings_batch call of the
\* latter

StoreIdle ==
    /\ st_fn = "add"
    /\ st_n = 0
    /\ st_i = 0
    /\ st_embs = <<>>
    /\ st_session = {}
    /\ st_table = {}
    /\ st_skipped = 0
    /\ st_pc = "idle"

StoreInit ==
    /\ st_fn \in {"add", "save"}
    /\ st_n \in 0..MaxTexts
    /\ st_i = 0
    /\ st_embs = <<>>
    /\ st_session = {}
    /\ st_table = {}
    /\ st_skipped = 0
    /\ st_pc = "call"

\* The embedding engine before the call: the model state and the device
EmbedReady ==
    /\ eb_n = 0
    /\ eb_arg = 0
    /\ eb_loaded \in BOOLEAN
    /\ eb_device \in {"cuda", "mps", "cpu"}
    /\ eb_vram \in IF eb_device = "cuda" THEN {-1, 4, 8, 16, 40} ELSE {-1}
    /\ eb_sizes = <<>>
    /\ eb_i = 0
    /\ eb_out = <<>>
    /\ eb_freed = 0
    /\ eb_pc = "idle"

\* The DocumentChunk built for chunk k (from 1) with the embedding computed
\* from the text numbered `embedded`
StoredChunk(k, embedded) == [chunk_id |-> k - 1, text |-> k, embedding |-> embedded]

\* The number of iterations of the loop: add_document_chunks iterates over
\* chunks, save_metrics_to_postgres over zip(chunks, chunk_embeddings)
StoreIterations(fn, n, embs) == IF fn = "save" THEN Min(n, Len(embs)) ELSE n

\* Entry: add_document_chunks goes to its loop; save_metrics_to_postgres
\* returns if there are no chunks and else calls
\* generate_embeddings_batch(chunk_texts, batch_size=None)
StoreEnter ==
    /\ st_pc = "call"
    /\ IF st_fn = "add"
       THEN /\ st_pc' = "loop"
            /\ UNCHANGED embedVars
       ELSE IF st_n = 0
       THEN /\ st_pc' = "returned"
            /\ UNCHANGED embedVars
       ELSE /\ st_pc' = "embedding"
            /\ eb_n' = st_n
            /\ eb_pc' = "call"
            /\ UNCHANGED <<eb_arg, eb_loaded, eb_device, eb_vram, eb_sizes, eb_i, eb_out,
                           eb_freed>>
    /\ UNCHANGED <<st_fn, st_n, st_i, st_embs, st_session, st_table, st_skipped>>
    /\ UNCHANGED notStore

\* generate_embeddings_batch has returned or raised: its list becomes
\* chunk_embeddings, its exception rolls back and is re-raised
StoreEmbedded ==
    /\ st_pc = "embedding"
    /\ eb_pc \in {"returned", "raised"}
    /\ IF eb_pc = "returned"
       THEN /\ st_embs' = eb_out
            /\ st_pc' = "loop"
       ELSE /\ st_pc' = "raised"
            /\ UNCHANGED st_embs
    /\ UNCHANGED <<st_fn, st_n, st_i, st_session, st_table, st_skipped>>
    /\ UNCHANGED embedVars
    /\ UNCHANGED notStore

\* One iteration of the loop. In add_document_chunks an exception
\* (generate_embedding, chunk_data[...], DocumentChunk) leaves the loop, rolls
\* back and is re-raised; in save_metrics_to_postgres the exception of one
\* chunk is caught inside the loop, logged, and the loop goes on.
StoreChunk ==
    /\ st_pc = "loop"
    /\ st_i < StoreIterations(st_fn, st_n, st_embs)
    /\ \E created \in BOOLEAN :
         LET k == st_i + 1
             row == StoredChunk(k, IF st_fn = "save" THEN st_embs[k] ELSE k)
         IN IF created
            THEN /\ st_session' = st_session \cup {row}
                 /\ st_i' = st_i + 1
                 /\ UNCHANGED <<st_skipped, st_pc>>
            ELSE IF st_fn = "save"
            THEN /\ st_skipped' = st_skipped + 1
                 /\ st_i' = st_i + 1
                 /\ UNCHANGED <<st_session, st_pc>>
            ELSE /\ st_session' = {}
                 /\ st_pc' = "raised"
                 /\ UNCHANGED <<st_i, st_skipped>>
    /\ UNCHANGED <<st_fn, st_n, st_embs, st_table>>
    /\ UNCHANGED embedVars
    /\ UNCHANGED notStore

\* `await db.commit()` after the loop: the session's rows become rows of the
\* table, or the commit raises, everything is rolled back and the exception
\* is re-raised
StoreCommit ==
    /\ st_pc = "loop"
    /\ st_i >= StoreIterations(st_fn, st_n, st_embs)
    /\ \E committed \in BOOLEAN :
         IF committed
         THEN /\ st_table' = st_table \cup st_session
              /\ st_pc' = "returned"
         ELSE /\ st_pc' = "raised"
              /\ UNCHANGED st_table
    /\ st_session' = {}
    /\ UNCHANGED <<st_fn, st_n, st_i, st_embs, st_skipped>>
    /\ UNCHANGED embedVars
    /\ UNCHANGED notStore

StoreNext == StoreEnter \/ StoreEmbedded \/ StoreChunk \/ StoreCommit \/ EmbedNext

----------------------------------------------------------------------------
\* Soft delete, restore and permanent delete (delete_document,
\* restore_document), and the two vector searches (search_for_qwen,
\* search_similar_chunks)

TrashDocs == 1..MaxTrashDocs

\* chunk_id of the chunks stored for an indexed document
IndexedChunks == {0, 1}

\* LIMIT of the searches of the model: one row, and settings.RAG_TOP_K
TopKs == {1, 5}

NoResult == [fn |-> "none", raised |-> FALSE, rows |-> {}, trashed |-> {}]

TrashInit ==
    /\ tr_docs = [d \in TrashDocs |-> "absent"]
    /\ tr_chunks = {}
    /\ tr_ops = 0
    /\ tr_result = NoResult

TrashIdle == TrashInit

\* The rows the search query can return: document_chunks joined with
\* documents on document_id, WHERE d.is_deleted = false, and for
\* search_similar_chunks with document_ids also restricted to these ids
SearchableBug(chunks, docstate, ids) ==
    {c \in chunks : docstate[c[1]] # "absent" /\ (ids = {} \/ c[1] \in ids)}
Searchable(chunks, docstate, ids) ==
    {c \in chunks : docstate[c[1]] = "live" /\ (ids = {} \/ c[1] \in ids)}

\* ORDER BY similarity DESC LIMIT top_k: top_k of the rows, or all of them
\* if there are fewer; which ones depends on the query
Limited(found, top_k) ==
    {res \in SUBSET found : Cardinality(res) = Min(top_k, Cardinality(found))}

\* A document is uploaded: its row is created, not deleted
TrashUpload(d) ==
    /\ tr_ops < MaxTrashOps
    /\ tr_docs[d] = "absent"
    /\ tr_docs' = [tr_docs EXCEPT ![d] = "live"]
    /\ tr_ops' = tr_ops + 1
    /\ UNCHANGED <<tr_chunks, tr_result>>
    /\ UNCHANGED notTrash

\* The chunks of an existing document are stored (by the deferred task of
\* the upload, which can run after the document went to the trash)
TrashIndex(d) ==
    /\ tr_ops < MaxTrashOps
    /\ tr_docs[d] # "absent"
    /\ \A c \in tr_chunks : c[1] # d
    /\ tr_chunks' = tr_chunks \cup {<<d, k>> : k \in IndexedChunks}
    /\ tr_ops' = tr_ops + 1
    /\ UNCHANGED <<tr_docs, tr_result>>
    /\ UNCHANGED notTrash

\* DELETE /{document_id} with permanent = false: is_deleted = True
SoftDelete(d) ==
    /\ tr_ops < MaxTrashOps
    /\ tr_docs[d] # "absent"
    /\ tr_docs' = [tr_docs EXCEPT ![d] = "trashed"]
    /\ tr_ops' = tr_ops + 1
    /\ UNCHANGED <<tr_chunks, tr_result>>
    /\ UNCHANGED notTrash

\* POST /{document_id}/restore: is_deleted = False
RestoreDocument(d) ==
    /\ tr_ops < MaxTrashOps
    /\ tr_docs[d] # "absent"
    /\ tr_docs' = [tr_docs EXCEPT ![d] = "live"]
    /\ tr_ops' = tr_ops + 1
    /\ UNCHANGED <<tr_chunks, tr_result>>
    /\ UNCHANGED notTrash

\* DELETE FROM document_chunks WHERE document_id = :document_id
ChunksAfterDeleteBug(chunks, d) == {c \in chunks : c # <<d, 0>>}
ChunksAfterDelete(chunks, d) == {c \in chunks : c[1] # d}

\* DELETE /{document_id} with permanent = true: delete_file, then
\* delete_document_chunks (which commits), then db.delete(doc) and commit.
\* The request can fail before the chunks are deleted, or after that and
\* before the document row is.
PermanentDelete(d) ==
    /\ tr_ops < MaxTrashOps
    /\ tr_docs[d] # "absent"
    /\ \E outcome \in {"ok", "file_failed", "row_failed"} :
         /\ tr_chunks' = IF outcome = "file_failed" THEN tr_chunks
                         ELSE ChunksAfterDelete(tr_chunks, d)
         /\ tr_docs' = IF outcome = "ok" THEN [tr_docs EXCEPT ![d] = "absent"] ELSE tr_docs
    /\ tr_ops' = tr_ops + 1
    /\ UNCHANGED tr_result
    /\ UNCHANGED notTrash

\* rag_service.search_for_qwen(db, query, top_k)
SearchForQwen ==
    /\ \E top_k \in TopKs, embedded \in BOOLEAN :
         IF ~embedded
         THEN tr_result' = [NoResult EXCEPT !.fn = "search_for_qwen", !.raised = TRUE]
         ELSE \E res \in Limited(Searchable(tr_chunks, tr_docs, {}), top_k) :
                 tr_result' = [fn |-> "search_for_qwen", raised |-> FALSE, rows |-> res,
                               trashed |-> {d \in TrashDocs : tr_docs[d] = "trashed"}]
    /\ UNCHANGED <<tr_docs, tr_chunks, tr_ops>>
    /\ UNCHANGED notTrash

\* rag_service.search_similar_chunks(db, query, top_k, document_ids)
SearchSimilarChunks ==
    /\ \E top_k \in TopKs, embedded \in BOOLEAN, ids \in SUBSET TrashDocs :
         IF ~embedded
         THEN tr_result' = [NoResult EXCEPT !.fn = "search_similar_chunks", !.raised = TRUE]
         ELSE \E res \in Limited(Searchable(tr_chunks, tr_docs, ids), top_k) :
                 tr_result' = [fn |-> "search_similar_chunks", raised |-> FALSE, rows |-> res,
                               trashed |-> {d \in TrashDocs : tr_docs[d] = "trashed"}]
    /\ UNCHANGED <<tr_docs, tr_chunks, tr_ops>>
    /\ UNCHANGED notTrash

TrashNext ==
    \/ \E d \in TrashDocs : TrashUpload(d)
    \/ \E d \in TrashDocs : TrashIndex(d)
    \/ \E d \in TrashDocs : SoftDelete(d)
    \/ \E d \in TrashDocs : RestoreDocument(d)
    \/ \E d \in TrashDocs : PermanentDelete(d)
    \/ SearchForQwen
    \/ SearchSimilarChunks

----------------------------------------------------------------------------
\* QwenService.process_search_query and the chat endpoints send_message and
\* stream_message

\* Similarities are modelled in hundredths: 95 stands for 0.95
HighRelevance == 90

Similarities == {40, 90, 95}

SearchDocs == 1..MaxSearchDocs

\* The retrieved chunks with what the function reads of them
RetrievedChunks == [document_id : SearchDocs, similarity : Similarities]

RECURSIVE ChunkListsUpTo(_)
ChunkListsUpTo(n) ==
    IF n = 0 THEN {<<>>}
    ELSE LET shorter == ChunkListsUpTo(n - 1)
         IN shorter \cup {Append(l, c) : l \in {x \in shorter : Len(x) = n - 1},
                                          c \in RetrievedChunks}

\* "call"              process_search_query is entered
\* "generating"        it is inside self._generate_text(...)
\* "returned"          it has returned to the endpoint
\* "stream_generating" stream_message is inside qwen_service._generate_text(...)
\* "responded"         the endpoint has sent its response
\* "blocked"           a _generate_text call that never returns holds the request
SearchPcs == {"idle", "call", "generating", "returned", "stream_generating", "responded",
              "blocked"}

NoSearchResult == [raised |-> FALSE, keys |-> {}, answer |-> "none", documents |-> <<>>,
                   chunks |-> <<>>]

NoResponse == [content |-> "none", documents |-> <<>>]

\* sorted(seq, key=similarity, reverse=True): stable, descending
RECURSIVE InsertDesc(_, _)
InsertDesc(sorted, x) ==
    IF sorted = <<>> THEN <<x>>
    ELSE IF Head(sorted).similarity >= x.similarity
    THEN <<Head(sorted)>> \o InsertDesc(Tail(sorted), x)
    ELSE <<x>> \o sorted

RECURSIVE SortDesc(_)
SortDesc(seq) ==
    IF seq = <<>> THEN <<>>
    ELSE InsertDesc(SortDesc(SubSeq(seq, 1, Len(seq) - 1)), seq[Len(seq)])

\* The loop over sorted_chunks: the first chunk of a document adds the
\* document with that chunk's similarity; a later chunk of the document
\* raises the document's similarity if its own is greater
RECURSIVE CollectDocuments(_, _, _)
CollectDocuments(chunks, documents, available) ==
    IF chunks = <<>> THEN documents
    ELSE LET chunk == Head(chunks)
             seen == {k \in 1..Len(documents) :
                         documents[k].document_id = chunk.document_id}
         IN IF seen # {}
            THEN LET k == CHOOSE x \in seen : TRUE
                 IN CollectDocuments(Tail(chunks),
                        IF chunk.similarity > documents[k].similarity
                        THEN [documents EXCEPT ![k].similarity = chunk.similarity]
                        ELSE documents,
                        available)
            ELSE CollectDocuments(Tail(chunks),
                     Append(documents, [document_id |-> chunk.document_id,
                                        similarity |-> chunk.similarity,
                                        available |-> available]),
                     available)

\* The filter on the sorted documents: those at or above the threshold if
\* there are any, else the first one
FilterDocumentsBug(documents) == documents
FilterDocuments(documents) ==
    LET IsHigh(doc) == doc.similarity >= HighRelevance
        high_relevance == SelectSeq(documents, IsHigh)
    IN IF high_relevance # <<>> THEN high_relevance
       ELSE SubSeq(documents, 1, Min(1, Len(documents)))

\* `documents` of the successful return
SurfacedDocuments(chunks, available) ==
    FilterDocuments(SortDesc(CollectDocuments(SortDesc(chunks), <<>>, available)))

\* The return value of the `except Exception` handler of process_search_query
SearchFailedBug(chunks) ==
    [raised |-> TRUE, keys |-> {}, answer |-> "none", documents |-> <<>>, chunks |-> <<>>]
SearchFailed(chunks) ==
    [raised |-> FALSE, keys |-> {"answer", "documents", "chunks"},
     answer |-> "error message", documents |-> <<>>, chunks |-> <<>>]

SearchInit ==
    /\ sq_endpoint \in {"message", "stream"}
    /\ sq_chunks \in ChunkListsUpTo(MaxRetrieved)
    /\ sq_pc = "call"
    /\ sq_result = NoSearchResult
    /\ sq_response = NoResponse

SearchIdle ==
    /\ sq_endpoint = "message"
    /\ sq_chunks = <<>>
    /\ sq_pc = "idle"
    /\ sq_result = NoSearchResult
    /\ sq_response = NoResponse

\* How a call of _generate_text can end
GenerationEnds == {"ok", "raises", "never_returns"}

\* process_search_query up to its _generate_text call: search_for_qwen
\* raises (query embedding or SQL), returns nothing, or returns chunks
SearchQueryEnter ==
    /\ sq_pc = "call"
    /\ \E searched \in BOOLEAN :
         IF ~searched
         THEN /\ sq_result' = SearchFailed(sq_chunks)
              /\ sq_pc' = "returned"
         ELSE IF sq_chunks = <<>>
         THEN /\ sq_result' = [raised |-> FALSE, keys |-> {"answer", "documents", "chunks"},
                               answer |-> "not found", documents |-> <<>>, chunks |-> <<>>]
              /\ sq_pc' = "returned"
         ELSE /\ sq_pc' = "generating"
              /\ UNCHANGED sq_result
    /\ UNCHANGED <<sq_endpoint, sq_chunks, sq_response>>
    /\ UNCHANGED notSearch

\* The _generate_text call of process_search_query and what follows it: the
\* documents are collected (with the Redis lookup, which yields None when it
\* fails), sorted, filtered and returned; an exception yields the handler's
\* result; a generation that never returns holds the call
SearchQueryGenerate ==
    /\ sq_pc = "generating"
    /\ \E gen \in GenerationEnds, available \in BOOLEAN :
         CASE gen = "ok" ->
                /\ sq_result' = [raised |-> FALSE,
                                 keys |-> {"answer", "documents", "chunks", "query"},
                                 answer |-> "generated",
                                 documents |-> SurfacedDocuments(sq_chunks, available),
                                 chunks |-> sq_chunks]
                /\ sq_pc' = "returned"
           [] gen = "raises" ->
                /\ sq_result' = SearchFailed(sq_chunks)
                /\ sq_pc' = "returned"
           [] gen = "never_returns" ->
                /\ sq_pc' = "blocked"
                /\ UNCHANGED sq_result
    /\ UNCHANGED <<sq_endpoint, sq_chunks, sq_response>>
    /\ UNCHANGED notSearch

\* send_message after process_search_query: the answer and the documents
SendMessageRespond ==
    /\ sq_pc = "returned"
    /\ sq_endpoint = "message"
    /\ sq_response' = [content |-> IF sq_result.raised THEN "exception"
                                   ELSE sq_result.answer,
                       documents |-> sq_result.documents]
    /\ sq_pc' = "responded"
    /\ UNCHANGED <<sq_endpoint, sq_chunks, sq_result>>
    /\ UNCHANGED notSearch

\* stream_message after process_search_query: without chunks and documents
\* the fixed "not found" text, else on to its own _generate_text call
StreamAfterSearch ==
    /\ sq_pc = "returned"
    /\ sq_endpoint = "stream"
    /\ IF sq_result.raised
       THEN /\ sq_response' = [content |-> "exception", documents |-> <<>>]
            /\ sq_pc' = "responded"
       ELSE IF sq_result.chunks = <<>> /\ sq_result.documents = <<>>
       THEN /\ sq_response' = [content |-> "not found", documents |-> <<>>]
            /\ sq_pc' = "responded"
       ELSE /\ sq_pc' = "stream_generating"
            /\ UNCHANGED sq_response
    /\ UNCHANGED <<sq_endpoint, sq_chunks, sq_result>>
    /\ UNCHANGED notSearch

\* The _generate_text call of stream_message: its text, or the templated
\* "Найдено N документов" when the text is too long or the call raised; a
\* generation that never returns holds the request
StreamGenerate ==
    /\ sq_pc = "stream_generating"
    /\ \E gen \in GenerationEnds, tooLong \in BOOLEAN :
         CASE gen = "ok" ->
                /\ sq_response' = [content |-> IF tooLong THEN "found count" ELSE "generated",
                                   documents |-> sq_result.documents]
                /\ sq_pc' = "responded"
           [] gen = "raises" ->
                /\ sq_response' = [content |-> "found count",
                                   documents |-> sq_result.documents]
                /\ sq_pc' = "responded"
           [] gen = "never_returns" ->
                /\ sq_pc' = "blocked"
                /\ UNCHANGED sq_response
    /\ UNCHANGED <<sq_endpoint, sq_chunks, sq_result>>
    /\ UNCHANGED notSearch

SearchNext ==
    \/ SearchQueryEnter
    \/ SearchQueryGenerate
    \/ SendMessageRespond
    \/ StreamAfterSearch
    \/ StreamGenerate

----------------------------------------------------------------------------
\* QwenService.classify_metrics_from_rag and QwenService._fallback_classify
\* on texts.  A text is the sequence of the code points of its characters.

\* str.lower() on one code point: A..Z and the Cyrillic capitals А..Я
LowerChar(c) ==
    IF (c >= 65 /\ c <= 90) \/ (c >= 1040 /\ c <= 1071) THEN c + 32 ELSE c

TextLower(text) == [k \in 1..Len(text) |-> LowerChar(text[k])]

\* `word in text` of two strings
WordIn(word, text) ==
    \E k \in 1..(Len(text) - Len(word) + 1) : SubSeq(text, k, k + Len(word) - 1) = word

\* any(word in text for word in words)
AnyWordIn(words, text) == \E k \in 1..Len(words) : WordIn(words[k], text)

ContractWords == <<
    <<1076, 1086, 1075, 1086, 1074, 1086, 1088>>,   \* договор
    <<1082, 1086, 1085, 1090, 1088, 1072, 1082, 1090>>,   \* контракт
    <<1089, 1086, 1075, 1083, 1072, 1096, 1077, 1085, 1080, 1077>>   \* соглашение
>>

InvoiceWords == <<
    <<1089, 1095, 1077, 1090>>,   \* счет
    <<105, 110, 118, 111, 105, 99, 101>>,   \* invoice
    <<1089, 1095, 1077, 1090, 45, 1092, 1072, 1082, 1090, 1091, 1088, 1072>>   \* счет-фактура
>>

ActWords == <<
    <<1072, 1082, 1090>>,   \* акт
    <<1087, 1088, 1080, 1077, 1084, 1082, 1080>>,   \* приемки
    <<1074, 1099, 1087, 1086, 1083, 1085, 1077, 1085, 1080, 1103>>   \* выполнения
>>

OrderWords == <<
    <<1087, 1088, 1080, 1082, 1072, 1079>>,   \* приказ
    <<1088, 1072, 1089, 1087, 1086, 1088, 1103, 1078, 1077, 1085, 1080, 1077>>,   \* распоряжение
    <<111, 114, 100, 101, 114>>   \* order
>>

EmailWords == <<
    <<1087, 1080, 1089, 1100, 1084, 1086>>,   \* письмо
    <<101, 109, 97, 105, 108>>,   \* email
    <<1089, 1086, 1086, 1073, 1097, 1077, 1085, 1080, 1077>>   \* сообщение
>>

HighWords == <<
    <<1089, 1088, 1086, 1095, 1085, 1086>>,   \* срочно
    <<117, 114, 103, 101, 110, 116>>,   \* urgent
    <<1074, 1072, 1078, 1085, 1086>>,   \* важно
    <<105, 109, 112, 111, 114, 116, 97, 110, 116>>   \* important
>>

LowWords == <<
    <<1085, 1080, 1079, 1082, 1080, 1081>>,   \* низкий
    <<108, 111, 119>>,   \* low
    <<1085, 1077, 1074, 1072, 1078, 1085, 1086>>   \* неважно
>>

\* doc_type of _fallback_classify: the if/elif chain over text_lower
FallbackTypeBug(text_lower) ==
    IF AnyWordIn(InvoiceWords, text_lower) THEN "invoice"
    ELSE IF AnyWordIn(ContractWords, text_lower) THEN "contract"
    ELSE IF AnyWordIn(ActWords, text_lower) THEN "act"
    ELSE IF AnyWordIn(OrderWords, text_lower) THEN "order"
    ELSE IF AnyWordIn(EmailWords, text_lower) THEN "email"
    ELSE "scan"
FallbackType(text_lower) ==
    IF AnyWordIn(ContractWords, text_lower) THEN "contract"
    ELSE IF AnyWordIn(InvoiceWords, text_lower) THEN "invoice"
    ELSE IF AnyWordIn(ActWords, text_lower) THEN "act"
    ELSE IF AnyWordIn(OrderWords, text_lower) THEN "order"
    ELSE IF AnyWordIn(EmailWords, text_lower) THEN "email"
    ELSE "scan"

\* priority of _fallback_classify
FallbackPriority(text_lower) ==
    IF AnyWordIn(HighWords, text_lower) THEN "high"
    ELSE IF AnyWordIn(LowWords, text_lower) THEN "low"
    ELSE "medium"

\* The filenames of the model and Path(filename).suffix.lower() without
\* its dot for each of them
Filenames == {"", "scan.PDF", "notes"}

FileExt(filename) ==
    CASE filename = "scan.PDF" -> "pdf"
      [] OTHER -> ""

\* fallback_tags: the extension if there is one, then doc_type unless "scan"
FallbackTags(doc_type, filename) ==
    (IF filename # "" /\ FileExt(filename) # "" THEN <<FileExt(filename)>> ELSE <<>>)
        \o (IF doc_type # "scan" THEN <<doc_type>> ELSE <<>>)

\* _fallback_classify(text, filename)
FallbackClassify(text, filename) ==
    LET text_lower == TextLower(text)
        doc_type == FallbackType(text_lower)
    IN [type |-> doc_type,
        counterparty_name |-> "None",
        date |-> "None",
        priority |-> FallbackPriority(text_lower),
        description |-> IF filename # "" THEN filename ELSE "no name",
        tags |-> FallbackTags(doc_type, filename)]

ClassifyWords == <<
    <<1044, 1086, 1075, 1086, 1074, 1086, 1088>>,   \* Договор
    <<1082, 1086, 1085, 1090, 1088, 1072, 1082, 1090>>,   \* контракт
    <<1089, 1095, 1077, 1090, 45, 1092, 1072, 1082, 1090, 1091, 1088, 1072>>,   \* счет-фактура
    <<105, 110, 118, 111, 105, 99, 101>>,   \* invoice
    <<1072, 1082, 1090>>,   \* акт
    <<1087, 1088, 1080, 1082, 1072, 1079>>,   \* приказ
    <<79, 114, 100, 101, 114>>,   \* Order
    <<1087, 1080, 1089, 1100, 1084, 1086>>,   \* письмо
    <<1057, 1056, 1054, 1063, 1053, 1054>>,   \* СРОЧНО
    <<105, 109, 112, 111, 114, 116, 97, 110, 116>>,   \* important
    <<1085, 1077, 1074, 1072, 1078, 1085, 1086>>,   \* неважно
    <<108, 111, 119>>,   \* low
    <<1085, 1072, 1082, 1083, 1072, 1076, 1085, 1072, 1103>>,   \* накладная
    <<1085, 1080, 1079, 1082, 1080, 1081>>   \* низкий
>>

\* The texts of the model: up to MaxWords of ClassifyWords, in the order of
\* the list, separated by a space (code point 32)
RECURSIVE JoinWords(_, _)
JoinWords(picked, k) ==
    IF k > Len(ClassifyWords) THEN <<>>
    ELSE LET rest == JoinWords(picked, k + 1)
         IN IF k \notin picked THEN rest
            ELSE IF rest = <<>> THEN ClassifyWords[k]
            ELSE ClassifyWords[k] \o <<32>> \o rest

ClassifyTexts ==
    {JoinWords(picked, 1) :
        picked \in {x \in SUBSET (1..Len(ClassifyWords)) : Cardinality(x) <= MaxWords}}

\* What the model can answer.  "no json": neither regular expression
\* matches; "broken json": a match that json.loads rejects; "json": a match
\* with the object json.loads returns, the value of "tags" as [kind, items]
TagValues == {[kind |-> "list", items |-> <<"supply", "2024">>],
              [kind |-> "str", items |-> <<"supply", "2024">>],
              [kind |-> "number", items |-> <<>>]}

ModelObjects ==
    [type : {"contract"}, counterparty_name : {"None"}, date : {"None"},
     priority : {"high", "urgent"}, description : {"text"}, tags : TagValues]
        \cup [type : {"contract"}, priority : {"low"}, description : {"text"}]
        \cup [tags : TagValues]
        \cup [description : {"text"}]

ModelResponses ==
    {[kind |-> "no json"], [kind |-> "broken json"]}
        \cup {[kind |-> "json", object |-> obj] : obj \in ModelObjects}

\* The normalisation of "tags" after json.loads: a list stays, a string is
\* split at its commas, any other value and a missing key become []
ParsedClassification(obj) ==
    IF "tags" \in DOMAIN obj
    THEN IF obj.tags.kind \in {"list", "str"}
         THEN [obj EXCEPT !.tags = obj.tags.items]
         ELSE [obj EXCEPT !.tags = <<>>]
    ELSE [k \in DOMAIN obj \cup {"tags"} |-> IF k = "tags" THEN <<>> ELSE obj[k]]

\* `classification` after the parsing block, from the model's response
ClassificationFromBug(response, text, filename) ==
    IF response.kind \in {"no json", "broken json"} THEN FallbackClassify(text, filename)
    ELSE ParsedClassification(response.object)
ClassificationFrom(response, text, filename) ==
    IF response.kind = "no json"
    THEN [FallbackClassify(text, filename) EXCEPT !.tags = <<>>]
    ELSE IF response.kind = "broken json"
    THEN FallbackClassify(text, filename)
    ELSE ParsedClassification(response.object)

NoClassification == [path |-> "none", classification |-> [none |-> TRUE],
                     processed |-> FALSE, error |-> "none"]

ClassifyInit ==
    /\ cl_text \in ClassifyTexts
    /\ cl_filename \in Filenames
    /\ cl_pc = "call"
    /\ cl_result = NoClassification

ClassifyIdle ==
    /\ cl_text = <<>>
    /\ cl_filename = ""
    /\ cl_pc = "idle"
    /\ cl_result = NoClassification

\* classify_metrics_from_rag up to the prompt: _ensure_model_loaded returns
\* or raises
ClassifyEnsureModel ==
    /\ cl_pc = "call"
    /\ \E loaded \in BOOLEAN :
         IF loaded
         THEN /\ cl_pc' = "generating"
              /\ UNCHANGED cl_result
         ELSE /\ cl_result' = [path |-> "load failed",
                               classification |-> FallbackClassify(cl_text, cl_filename),
                               processed |-> FALSE, error |-> "Model not available"]
              /\ cl_pc' = "done"
    /\ UNCHANGED <<cl_text, cl_filename>>
    /\ UNCHANGED notClassify

\* The generation under wait_for(..., timeout=60.0) and the parsing of its
\* response
ClassifyGenerate ==
    /\ cl_pc = "generating"
    /\ \E gen \in GenerationEnds, response \in ModelResponses :
         cl_result' =
            CASE gen = "never_returns" ->
                   [path |-> "timeout",
                    classification |-> FallbackClassify(cl_text, cl_filename),
                    processed |-> FALSE, error |-> "Generation timeout"]
              [] gen = "raises" ->
                   [path |-> "generation error",
                    classification |-> FallbackClassify(cl_text, cl_filename),
                    processed |-> FALSE, error |-> "exception message"]
              [] gen = "ok" ->
                   [path |-> IF response.kind = "json" THEN "parsed" ELSE response.kind,
                    classification |-> ClassificationFrom(response, cl_text, cl_filename),
                    processed |-> TRUE, error |-> "none"]
    /\ cl_pc' = "done"
    /\ UNCHANGED <<cl_text, cl_filename>>
    /\ UNCHANGED notClassify

ClassifyNext == ClassifyEnsureModel \/ ClassifyGenerate

----------------------------------------------------------------------------
\* The L2 normalisation at the end of RAGService.generate_embedding and in
\* the loop of generate_embeddings_batch.  Vectors have two integer
\* components; a vector divided by a norm is kept exactly, as the vector
\* and the square of the divisor.

PooledVectors == (-MaxComponent..MaxComponent) \X (-MaxComponent..MaxComponent)

\* np.linalg.norm(embedding), squared
SquaredNorm(v) == v[1] * v[1] + v[2] * v[2]

\* norm = np.linalg.norm(embedding); if norm > 0: embedding = embedding / norm
NormalizeBug(v) == [num |-> v, den2 |-> SquaredNorm(v)]
Normalize(v) ==
    IF SquaredNorm(v) > 0 THEN [num |-> v, den2 |-> SquaredNorm(v)]
    ELSE [num |-> v, den2 |-> 1]

NormInit ==
    /\ nm_fn \in {"generate_embedding", "generate_embeddings_batch"}
    /\ nm_pooled \in UNION {[1..n -> PooledVectors] : n \in 0..MaxVectors}
    /\ (nm_fn = "generate_embedding") => Len(nm_pooled) = 1
    /\ nm_out = <<>>
    /\ nm_pc = "normalising"

NormIdle ==
    /\ nm_fn = "generate_embedding"
    /\ nm_pooled = <<>>
    /\ nm_out = <<>>
    /\ nm_pc = "idle"

\* generate_embedding: the pooled vector is normalised and returned
NormalizeEmbedding ==
    /\ nm_pc = "normalising"
    /\ nm_fn = "generate_embedding"
    /\ nm_out' = <<Normalize(nm_pooled[1])>>
    /\ nm_pc' = "returned"
    /\ UNCHANGED <<nm_fn, nm_pooled>>
    /\ UNCHANGED notNorm

\* generate_embeddings_batch: `for emb in batch_embeddings` appends the
\* normalised vector of the next text; the list is returned after the last
NormalizeBatch ==
    /\ nm_pc = "normalising"
    /\ nm_fn = "generate_embeddings_batch"
    /\ IF Len(nm_out) < Len(nm_pooled)
       THEN /\ nm_out' = Append(nm_out, Normalize(nm_pooled[Len(nm_out) + 1]))
            /\ UNCHANGED nm_pc
       ELSE /\ nm_pc' = "returned"
            /\ UNCHANGED nm_out
    /\ UNCHANGED <<nm_fn, nm_pooled>>
    /\ UNCHANGED notNorm

NormNext == NormalizeEmbedding \/ NormalizeBatch

----------------------------------------------------------------------------
\* Inference calls against the one shared model of a process.  The
\* event-loop thread runs the synchronous calls (generate_embedding,
\* generate_embeddings_batch, _generate_text called directly) one after the
\* other; classify_metrics_from_rag hands _generate_text to a worker thread
\* with asyncio.to_thread and waits for it for 60 seconds at most.

\* The synchronous inference calls and who makes them: the request handlers
\* before their response, and the deferred task of the upload after it
InferenceCalls ==
    {[caller |-> "upload_document", fn |-> "generate_embedding", ctx |-> "request"],
     [caller |-> "send_message", fn |-> "generate_embedding", ctx |-> "request"],
     [caller |-> "send_message", fn |-> "_generate_text", ctx |-> "request"],
     [caller |-> "background_save_rag_metrics", fn |-> "generate_embeddings_batch",
      ctx |-> "background"]}

NoInference == [caller |-> "none", fn |-> "none", ctx |-> "none", phase |-> "none",
                at_start |-> "none", alone |-> TRUE]

NoThread == [phase |-> "idle", device |-> "none", awaited |-> FALSE]

\* Whether the call moves the model to the CPU for its forward pass:
\* generate_embedding always, generate_embeddings_batch unless the best
\* device is cuda, _generate_text never
Relocates(fn, best) ==
    \/ fn = "generate_embedding"
    \/ fn = "generate_embeddings_batch" /\ best # "cuda"

\* The device of the model after the forward pass of a relocating call:
\* `finally: model.to(original_device)`
RestoredDeviceBug(original, current, raised) == IF raised THEN current ELSE original
RestoredDevice(original, current, raised) == original

InferInit ==
    /\ inf_home \in {"cuda", "mps", "cpu"}
    /\ inf_device = inf_home
    /\ inf_loop = NoInference
    /\ inf_thread = NoThread
    /\ inf_moved = FALSE

InferIdle ==
    /\ inf_home = "cpu"
    /\ inf_device = "cpu"
    /\ inf_loop = NoInference
    /\ inf_thread = NoThread
    /\ inf_moved = FALSE

\* The event loop enters a synchronous inference call
LoopCall ==
    /\ inf_loop = NoInference
    /\ \E call \in InferenceCalls :
         inf_loop' = [caller |-> call.caller, fn |-> call.fn, ctx |-> call.ctx,
                      phase |-> "entered", at_start |-> inf_device,
                      alone |-> inf_thread.phase = "idle"]
    /\ UNCHANGED <<inf_home, inf_device, inf_thread, inf_moved>>
    /\ UNCHANGED notInfer

\* original_device = next(model.parameters()).device; model.to("cpu")
\* (a call that does not relocate goes on with the model where it is)
LoopRelocate ==
    /\ inf_loop.phase = "entered"
    /\ inf_loop' = [inf_loop EXCEPT !.phase = "forward"]
    /\ inf_device' = IF Relocates(inf_loop.fn, inf_home) THEN "cpu" ELSE inf_device
    /\ UNCHANGED <<inf_home, inf_thread, inf_moved>>
    /\ UNCHANGED notInfer

\* The forward pass (or generate) returns or raises, and the finally block
\* of a relocating call runs
LoopForward ==
    /\ inf_loop.phase = "forward"
    /\ \E raised \in BOOLEAN :
         /\ inf_loop' = [inf_loop EXCEPT !.phase = IF raised THEN "raised" ELSE "returned"]
         /\ inf_device' = IF Relocates(inf_loop.fn, inf_home)
                          THEN RestoredDevice(inf_loop.at_start, inf_device, raised)
                          ELSE inf_device
    /\ UNCHANGED <<inf_home, inf_thread, inf_moved>>
    /\ UNCHANGED notInfer

\* The call is over and the event loop goes on
LoopReturn ==
    /\ inf_loop.phase \in {"returned", "raised"}
    /\ inf_loop' = NoInference
    /\ UNCHANGED <<inf_home, inf_device, inf_thread, inf_moved>>
    /\ UNCHANGED notInfer

\* classify_metrics_from_rag: asyncio.to_thread(self._generate_text, ...)
\* starts the generation on a worker thread; its inputs go to the device the
\* model is on
ThreadStart ==
    /\ inf_loop = NoInference
    /\ inf_thread.phase = "idle"
    /\ inf_thread' = [phase |-> "generating", device |-> inf_device, awaited |-> TRUE]
    /\ UNCHANGED <<inf_home, inf_device, inf_loop, inf_moved>>
    /\ UNCHANGED notInfer

\* A step of model.generate on the worker thread: it runs the model where
\* the model is now
ThreadStep ==
    /\ inf_thread.phase = "generating"
    /\ inf_moved' = (inf_moved \/ inf_device # inf_thread.device)
    /\ UNCHANGED <<inf_home, inf_device, inf_loop, inf_thread>>
    /\ UNCHANGED notInfer

\* wait_for gives up after 60 seconds: classify_metrics_from_rag returns the
\* fallback, the worker thread is not stopped
WaitTimesOut ==
    /\ inf_loop = NoInference
    /\ inf_thread.phase = "generating"
    /\ inf_thread.awaited
    /\ inf_thread' = [inf_thread EXCEPT !.awaited = FALSE]
    /\ UNCHANGED <<inf_home, inf_device, inf_loop, inf_moved>>
    /\ UNCHANGED notInfer

\* The generation on the worker thread ends
ThreadFinish ==
    /\ inf_thread.phase = "generating"
    /\ inf_thread' = NoThread
    /\ UNCHANGED <<inf_home, inf_device, inf_loop, inf_moved>>
    /\ UNCHANGED notInfer

InferNext ==
    \/ LoopCall
    \/ LoopRelocate
    \/ LoopForward
    \/ LoopReturn
    \/ ThreadStart
    \/ ThreadStep
    \/ WaitTimesOut
    \/ ThreadFinish

----------------------------------------------------------------------------
\* Whose documents the chat and the search endpoints show

Users == {"alice", "bob"}

OwnedDocs == 1..MaxOwnedDocs

NoShown == [endpoint |-> "none", user |-> "none", documents |-> {}]

\* The documents whose chunks search_for_qwen and search_similar_chunks can
\* return: every document with chunks (the SQL has no condition on the
\* user; the documents of this model are not deleted)
DocumentsWithChunks(indexed) == indexed

\* search_documents keeps a document of a chunk only if the Document row
\* with uploaded_by = current_user.id exists
OwnedBy(found, owner, user) == {d \in found : owner[d] = user}

OwnerInit ==
    /\ ow_owner = [d \in OwnedDocs |-> "none"]
    /\ ow_indexed = {}
    /\ ow_response = NoShown

OwnerIdle == OwnerInit

\* upload_document by `user`: uploaded_by = current_user.id
OwnerUpload ==
    /\ \E user \in Users, d \in OwnedDocs :
         /\ ow_owner[d] = "none"
         /\ \A e \in OwnedDocs : e < d => ow_owner[e] # "none"
         /\ ow_owner' = [ow_owner EXCEPT ![d] = user]
    /\ UNCHANGED <<ow_indexed, ow_response>>
    /\ UNCHANGED notOwner

\* The chunks of an uploaded document are stored
OwnerIndex ==
    /\ \E d \in OwnedDocs :
         /\ ow_owner[d] # "none"
         /\ d \notin ow_indexed
         /\ ow_indexed' = ow_indexed \cup {d}
    /\ UNCHANGED <<ow_owner, ow_response>>
    /\ UNCHANGED notOwner

\* send_message / stream_message by `user`: process_search_query returns
\* documents of the chunks search_for_qwen found, at least one if any chunk
\* was found; current_user is not used
ChatMessage ==
    /\ \E user \in Users, endpoint \in {"send_message", "stream_message"} :
         LET found == DocumentsWithChunks(ow_indexed)
         IN \E shown \in SUBSET found :
               /\ (found # {}) => shown # {}
               /\ ow_response' = [endpoint |-> endpoint, user |-> user, documents |-> shown]
    /\ UNCHANGED <<ow_owner, ow_indexed>>
    /\ UNCHANGED notOwner

\* search_documents by `user`: the documents of the found chunks that the
\* user uploaded
SearchDocuments ==
    /\ \E user \in Users :
         \E found \in SUBSET DocumentsWithChunks(ow_indexed) :
            ow_response' = [endpoint |-> "search_documents", user |-> user,
                            documents |-> OwnedBy(found, ow_owner, user)]
    /\ UNCHANGED <<ow_owner, ow_indexed>>
    /\ UNCHANGED notOwner

OwnerNext == OwnerUpload \/ OwnerIndex \/ ChatMessage \/ SearchDocuments

----------------------------------------------------------------------------
\* Specifications

InitChunk == ChunkInit /\ EmbedIdle /\ ModelIdle /\ IngestIdle /\ DeviceIdle /\ StoreIdle /\ TrashIdle /\ SearchIdle /\ ClassifyIdle /\ NormIdle /\ InferIdle /\ OwnerIdle
SpecChunk == InitChunk /\ [][ChunkNext]_vars

InitChunkOverlap ==
    ChunkOverlapInit /\ EmbedIdle /\ ModelIdle /\ IngestIdle /\ DeviceIdle /\ StoreIdle
        /\ TrashIdle /\ SearchIdle /\ ClassifyIdle /\ NormIdle /\ InferIdle /\ OwnerIdle
SpecChunkOverlap == InitChunkOverlap /\ [][ChunkNext]_vars

InitEmbed == EmbedInit /\ ChunkIdle /\ ModelIdle /\ IngestIdle /\ DeviceIdle /\ StoreIdle /\ TrashIdle /\ SearchIdle /\ ClassifyIdle /\ NormIdle /\ InferIdle /\ OwnerIdle
SpecEmbed == InitEmbed /\ [][EmbedNext]_vars

InitModel == ModelInit /\ ChunkIdle /\ EmbedIdle /\ IngestIdle /\ DeviceIdle /\ StoreIdle /\ TrashIdle /\ SearchIdle /\ ClassifyIdle /\ NormIdle /\ InferIdle /\ OwnerIdle
SpecModel == InitModel /\ [][ModelNext]_vars

InitIngest == IngestInit /\ ChunkIdle /\ EmbedIdle /\ ModelIdle /\ DeviceIdle /\ StoreIdle /\ TrashIdle /\ SearchIdle /\ ClassifyIdle /\ NormIdle /\ InferIdle /\ OwnerIdle
SpecIngest == InitIngest /\ [][IngestNext]_vars

InitDevice ==
    DeviceInit /\ ChunkIdle /\ EmbedIdle /\ ModelIdle /\ IngestIdle /\ StoreIdle /\ TrashIdle /\ SearchIdle /\ ClassifyIdle /\ NormIdle /\ InferIdle /\ OwnerIdle
SpecDevice == InitDevice /\ [][DeviceNext]_vars

InitStore ==
    StoreInit /\ EmbedReady /\ ChunkIdle /\ ModelIdle /\ IngestIdle /\ DeviceIdle
        /\ TrashIdle /\ SearchIdle /\ ClassifyIdle /\ NormIdle /\ InferIdle /\ OwnerIdle
SpecStore == InitStore /\ [][StoreNext]_vars

InitTrash ==
    TrashInit /\ ChunkIdle /\ EmbedIdle /\ ModelIdle /\ IngestIdle /\ DeviceIdle
        /\ StoreIdle /\ SearchIdle /\ ClassifyIdle /\ NormIdle /\ InferIdle /\ OwnerIdle
SpecTrash == InitTrash /\ [][TrashNext]_vars

InitSearch ==
    SearchInit /\ ChunkIdle /\ EmbedIdle /\ ModelIdle /\ IngestIdle /\ DeviceIdle
        /\ StoreIdle /\ TrashIdle /\ ClassifyIdle /\ NormIdle /\ InferIdle /\ OwnerIdle
SpecSearch == InitSearch /\ [][SearchNext]_vars

InitClassify ==
    ClassifyInit /\ ChunkIdle /\ EmbedIdle /\ ModelIdle /\ IngestIdle /\ DeviceIdle
        /\ StoreIdle /\ TrashIdle /\ SearchIdle /\ NormIdle /\ InferIdle /\ OwnerIdle
SpecClassify == InitClassify /\ [][ClassifyNext]_vars

InitNorm ==
    NormInit /\ ChunkIdle /\ EmbedIdle /\ ModelIdle /\ IngestIdle /\ DeviceIdle
        /\ StoreIdle /\ TrashIdle /\ SearchIdle /\ ClassifyIdle /\ InferIdle /\ OwnerIdle
SpecNorm == InitNorm /\ [][NormNext]_vars

InitInfer ==
    InferInit /\ ChunkIdle /\ EmbedIdle /\ ModelIdle /\ IngestIdle /\ DeviceIdle
        /\ StoreIdle /\ TrashIdle /\ SearchIdle /\ ClassifyIdle /\ NormIdle /\ OwnerIdle
SpecInfer == InitInfer /\ [][InferNext]_vars

InitOwner ==
    OwnerInit /\ ChunkIdle /\ EmbedIdle /\ ModelIdle /\ IngestIdle /\ DeviceIdle
        /\ StoreIdle /\ TrashIdle /\ SearchIdle /\ ClassifyIdle /\ NormIdle /\ InferIdle
SpecOwner == InitOwner /\ [][OwnerNext]_vars

----------------------------------------------------------------------------
\* Properties of chunk_text

\* C6: for every text and every configuration with chunk_size >= 1 and
\* chunk_overlap >= 0 (chunk_overlap >= chunk_size included), the window
\* start strictly increases on every iteration of the loop, an iteration
\* runs only while start < len(text): len(text) - start is a positive,
\* strictly decreasing variant of the loop, so the call terminates.
C6_StartAdvancesAndTerminates ==
    [][(ct_pc = "loop" /\ ct_pc' = "loop") =>
           (ct_start < Len(ct_text) /\ ct_start' > ct_start)]_vars

\* a finished call that produced several chunks with overlap >= chunk_size
C6_Witness ==
    /\ ct_pc = "done"
    /\ ct_overlap >= ct_size
    /\ Len(ct_chunks) >= 2

\* C7 (as claimed): for every (non-blank) text, every returned chunk's text
\* equals text[start_pos:end_pos] and the ranges [start_pos, end_pos) of the
\* returned chunks cover every position 0..len(text)-1.
C7_ChunksReconstructText ==
    (ct_pc = "done" /\ Strip(ct_text) # <<>>) =>
        /\ \A k \in 1..Len(ct_chunks) :
              ct_chunks[k].text = PySlice(ct_text, ct_chunks[k].start_pos, ct_chunks[k].end_pos)
        /\ \A p \in 0..(Len(ct_text) - 1) :
              \E k \in 1..Len(ct_chunks) :
                  ct_chunks[k].start_pos <= p /\ p < ct_chunks[k].end_pos

\* C8: the k-th returned chunk has chunk_id = k (counting from 0), also when
\* blank windows were skipped, and start_pos strictly increases from each
\* chunk to the next.
C8_ChunkIdsInOrder ==
    \A k \in 1..Len(ct_chunks) :
        /\ ct_chunks[k].chunk_id = k - 1
        /\ k > 1 => ct_chunks[k].start_pos > ct_chunks[k - 1].start_pos

\* a finished call in which a blank window was skipped between two chunks
\* (consecutive windows never leave a gap, so a gap shows a skipped window)
C8_Witness ==
    /\ ct_pc = "done"
    /\ Len(ct_chunks) >= 2
    /\ \E k \in 2..Len(ct_chunks) : ct_chunks[k].start_pos > ct_chunks[k - 1].end_pos

----------------------------------------------------------------------------
\* Properties of generate_embeddings_batch

\* C4 (as claimed): out-of-memory is fatal at batch size 1: a frame that runs
\* at batch size 1 is never followed by a retry, so no frame of the
\* recursion other than the innermost one has batch size 1.
C4_NoRetryAtBatchSizeOne ==
    \A k \in 1..(Len(eb_sizes) - 1) : eb_sizes[k] # 1

\* C5: every retry follows an out-of-memory signal that emptied the cache
\* (one empty_cache per retry), a retry after a frame with batch size b > 1
\* runs at b \div 2 >= 1, and from batch size 8 the retries run at 4, 2, 1
\* in that order.
C5_HalvingRetries ==
    /\ eb_pc \in {"loop", "returned"} => eb_freed = Len(eb_sizes) - 1
    /\ \A k \in 2..Len(eb_sizes) :
          eb_sizes[k - 1] > 1 =>
              (eb_sizes[k] = eb_sizes[k - 1] \div 2 /\ eb_sizes[k] >= 1)
    /\ (Len(eb_sizes) >= 4 /\ eb_sizes[1] = 8) => SubSeq(eb_sizes, 2, 4) = <<4, 2, 1>>

\* a call started at batch size 8 that returned every embedding after
\* retries at 4, 2 and 1
C5_Witness ==
    /\ eb_pc = "returned"
    /\ eb_sizes = <<8, 4, 2, 1>>
    /\ eb_freed = 3
    /\ Len(eb_out) = eb_n

----------------------------------------------------------------------------
\* Properties of the model lifecycle

\* C9 (as claimed): over any sequence of calls of _ensure_model_loaded,
\* _ensure_qwen_loaded (and the entry points that call them), _load_model is
\* executed at most once, whatever the outcome of the first execution.
C9_LoadedAtMostOnce == q_loads <= 1

\* C10 (as claimed): when loading the weights throws, no exception leaves
\* _ensure_model_loaded and _model is None; and a classify_metrics_from_rag
\* call made while the model is so recorded as unavailable returns the
\* keyword fallback classification with processed = False, without raising.
C10_WeightFailureDegradesToFallback ==
    /\ (m_last.op = "ensure_model_loaded" /\ m_last.outcome = "weights_throw") =>
           (~m_last.raised /\ q_model = "none")
    /\ (m_last.op = "classify_metrics_from_rag" /\ m_last.unavailable) =>
           /\ ~m_last.raised
           /\ m_last.result.processed = FALSE
           /\ m_last.result.classification = "fallback"

----------------------------------------------------------------------------
\* Properties of document ingestion

\* C1 (as claimed): once the queued task has run two or more times for the
\* same document with nothing failing around it (a duplicate delivery
\* included), no two stored chunks of the document share
\* (document_id, chunk_id) and the number of stored chunks of the document
\* equals the number of chunks the task's chunker produces for its text.
C1_ReingestionLeavesOneChunkSet ==
    \A d \in DocIds :
        task[d].clean >= 2 =>
            LET mine == {r \in rows : r.document_id = d}
            IN /\ \A r1, r2 \in mine : r1.chunk_id = r2.chunk_id => r1 = r2
               /\ Cardinality(mine) = Len(TaskChunks(docs[d].text))

\* C2 (as claimed): every upload request that reached the dispatch gets the
\* successful response, whether the dispatch succeeded or threw, and exactly
\* one ingestion path is scheduled: the queued task and no deferred task
\* when the dispatch succeeded, the deferred task and no queued task when it
\* threw.
C2_UniformResponseOnePath ==
    \A d \in DocIds :
        up_dispatch[d] # "none" =>
            /\ up_resp[d] = "200"
            /\ up_dispatch[d] = "queued" => (delivered[d] >= 1 /\ bg[d] = "none")
            /\ up_dispatch[d] = "failed" => (delivered[d] = 0 /\ bg[d] # "none")

----------------------------------------------------------------------------
\* Properties of _get_best_device

\* C11 (as claimed): for the settings auto, cpu, cuda and mps and every
\* availability of CUDA and MPS, every call returns the requested device
\* when it is available (cpu always is), and otherwise - the setting is
\* auto or the requested device is unavailable - the first available of
\* cuda, mps, cpu.
C11_OverrideElseBestAvailable ==
    \A k \in 1..Len(dv_results) :
        LET device == Lower(dv_setting)
            available == device = "cpu" \/ (device = "cuda" /\ dv_cuda)
                                        \/ (device = "mps" /\ dv_mps)
        IN device \in {"auto", "cpu", "cuda", "mps"} =>
              dv_results[k] = IF available THEN device
                              ELSE IF dv_cuda THEN "cuda"
                              ELSE IF dv_mps THEN "mps" ELSE "cpu"

\* C11 (amended): every call returns the requested device when the setting
\* names cpu, or names cuda or mps and that device is available; it returns
\* cpu when the setting names any other or an unavailable device; and it
\* returns the first available of cuda, mps, cpu when the setting is auto or
\* empty. Settings are compared in lower case, and all calls made with the
\* same setting and availability return the same device.
C11_OverrideElseCpuAutoBestAvailable ==
    \A k \in 1..Len(dv_results) :
        LET device == Lower(dv_setting)
            available == device = "cpu" \/ (device = "cuda" /\ dv_cuda)
                                        \/ (device = "mps" /\ dv_mps)
        IN /\ dv_results[k] = dv_results[1]
           /\ dv_results[k] =
                 IF device \in {"auto", ""}
                 THEN (IF dv_cuda THEN "cuda" ELSE IF dv_mps THEN "mps" ELSE "cpu")
                 ELSE IF available THEN device
                 ELSE "cpu"

\* mps was requested and is unavailable while cuda is available, and the
\* function has been called more than once
C11_Witness ==
    /\ dv_setting = "mps"
    /\ dv_cuda
    /\ ~dv_mps
    /\ Len(dv_results) >= 2

----------------------------------------------------------------------------
\* Properties of chunk persistence

\* C12 (as claimed): when add_document_chunks or save_metrics_to_postgres
\* has returned or raised, either every chunk passed to the call is stored
\* or none is, and none is if the creation of any chunk or the commit failed.
C12_AllOrNothing ==
    st_pc \in {"returned", "raised"} =>
        /\ Cardinality(st_table) \in {0, st_n}
        /\ (st_pc = "raised" \/ st_skipped > 0) => st_table = {}

\* C13: generate_embeddings_batch returns exactly one vector per input text,
\* in input order, also when an out-of-memory retry restarted the loop after
\* some batches had been embedded; save_metrics_to_postgres pairs the i-th
\* vector with the i-th chunk, so every row added to the session or stored
\* carries the embedding computed from its own text (in add_document_chunks
\* as well, which embeds each chunk's text by itself).
C13_EmbeddingOfOwnText ==
    /\ eb_pc = "returned" => eb_out = [k \in 1..eb_n |-> k]
    /\ (st_fn = "save" /\ st_pc \in {"loop", "returned"} /\ st_n > 0) =>
           st_embs = [k \in 1..st_n |-> k]
    /\ \A r \in st_session \cup st_table :
           /\ r.embedding = r.text
           /\ r.chunk_id = r.text - 1

\* save_metrics_to_postgres stored every chunk of a list of several chunks
\* after generate_embeddings_batch had retried on out-of-memory
C13_Witness ==
    /\ st_fn = "save"
    /\ st_pc = "returned"
    /\ st_n >= 3
    /\ Cardinality(st_table) = st_n
    /\ eb_freed >= 1
    /\ Len(eb_sizes) >= 2

----------------------------------------------------------------------------
\* Properties of the searches

\* C14: after any sequence of uploads, soft deletes, restores and permanent
\* deletes, no row returned by search_for_qwen or search_similar_chunks
\* belongs to a document that was soft-deleted when the search ran: the
\* query itself filters on d.is_deleted = false.
C14_NoChunkOfTrashedDocument ==
    \A c \in tr_result.rows : c[1] \notin tr_result.trashed

\* a search returned chunks while another document with stored chunks was in
\* the trash
C14_Witness ==
    /\ tr_result.fn \in {"search_for_qwen", "search_similar_chunks"}
    /\ tr_result.rows # {}
    /\ \E d \in tr_result.trashed : \E c \in tr_chunks : c[1] = d

----------------------------------------------------------------------------
\* Properties of process_search_query and the chat endpoints

C16_NoRawException ==
    /\ sq_pc \in {"returned", "stream_generating", "responded"} =>
          /\ ~sq_result.raised
          /\ {"answer", "documents", "chunks"} \subseteq sq_result.keys
          /\ sq_result.answer \in {"not found", "generated", "error message"}
    /\ (sq_pc = "responded" /\ sq_endpoint = "message") =>
          /\ sq_response.content = sq_result.answer
          /\ sq_response.documents = sq_result.documents

\* a failed generation answered by the message endpoint
C16_Witness ==
    /\ sq_endpoint = "message"
    /\ sq_chunks # <<>>
    /\ sq_pc = "responded"
    /\ sq_result.answer = "error message"
    /\ sq_response.content = "error message"

\* C17: every generation call is bounded by a timeout, so no request is
\* held by a _generate_text call that never returns.
C17_GenerationCallsBounded ==
    sq_pc # "blocked"

----------------------------------------------------------------------------
\* Properties of classify_metrics_from_rag and _fallback_classify

\* C18: on every path of classify_metrics_from_rag the returned
\* classification has type, priority, description and tags, its priority
\* is high, medium or low, and it is either the parsed result of the model
\* or exactly what _fallback_classify returns for the text and filename.
C18_ClassificationShape ==
    cl_pc = "done" =>
        LET c == cl_result.classification
        IN /\ {"type", "priority", "description", "tags"} \subseteq DOMAIN c
           /\ c.priority \in {"high", "medium", "low"}
           /\ cl_result.path = "parsed" \/ c = FallbackClassify(cl_text, cl_filename)

\* C19: on the paths that return _fallback_classify's result: a text with a
\* contract keyword and an urgency keyword gives type contract and priority
\* high whatever else it contains; the type is that of the first of
\* contract, invoice, act, order, email with a keyword in the text; a text
\* with no type keyword gives scan and one with no priority keyword medium.
C19_FallbackPrecedence ==
    cl_result.path \in {"load failed", "timeout", "generation error", "broken json"} =>
        LET c == cl_result.classification
            Has(words) == AnyWordIn(words, TextLower(cl_text))
            lists == <<ContractWords, InvoiceWords, ActWords, OrderWords, EmailWords>>
            types == <<"contract", "invoice", "act", "order", "email">>
        IN /\ (Has(ContractWords) /\ Has(HighWords)) =>
                 (c.type = "contract" /\ c.priority = "high")
           /\ \A k \in 1..5 :
                 (Has(lists[k]) /\ \A j \in 1..(k - 1) : ~Has(lists[j])) => c.type = types[k]
           /\ (\A k \in 1..5 : ~Has(lists[k])) => c.type = "scan"
           /\ (~Has(HighWords) /\ ~Has(LowWords)) => c.priority = "medium"

\* no model loaded, a text with "Договор", "СРОЧНО" and an invoice keyword
C19_Witness ==
    /\ cl_result.path = "load failed"
    /\ WordIn(ContractWords[1], TextLower(cl_text))
    /\ ~WordIn(ContractWords[1], cl_text)
    /\ WordIn(HighWords[1], TextLower(cl_text))
    /\ AnyWordIn(InvoiceWords, cl_text)
    /\ cl_result.classification.type = "contract"
    /\ cl_result.classification.priority = "high"

----------------------------------------------------------------------------
\* Extraction failures during ingestion

\* C20: when the text extraction of an upload failed, the ingestion of the
\* document is aborted: it is not recorded as processed, no chunks are
\* derived for it and nothing is scheduled to store any; and a task run
\* whose extraction failed reports failure.
C20_ExtractionFailureAborts ==
    \A d \in DocIds :
        /\ (up_metrics[d].captured /\ ~up_metrics[d].extracted) =>
              /\ ~docs[d].present
              /\ up_metrics[d].chunks = <<>>
              /\ bg[d] = "none"
        /\ task[d].last.error = "load" => ~task[d].last.success

----------------------------------------------------------------------------
\* The life of an ingestion

\* C21: a document is recorded as processed only after the run that
\* persists its chunks has finished: the queued task has returned success
\* or the background save has stored the captured chunks.
C21_ProcessedAfterPersistingRun ==
    \A d \in DocIds :
        (docs[d].present /\ docs[d].status = "processed") =>
            (task[d].last.success \/ bg[d] \in {"saved", "no_chunks"})

----------------------------------------------------------------------------
\* Chunks and the deletion of their document

----------------------------------------------------------------------------
\* Normalised embeddings

\* C23: every returned vector has L2 norm 1 (the square of the divisor is
\* the squared norm of the vector it divides), except the all-zero pooled
\* vector, which is returned as it is and is never divided.
C23_UnitNormOrZero ==
    (nm_pc = "returned") =>
        /\ Len(nm_out) = Len(nm_pooled)
        /\ \A k \in 1..Len(nm_out) :
              /\ nm_out[k].num = nm_pooled[k]
              /\ nm_out[k].den2 > 0
              /\ IF nm_pooled[k] = <<0, 0>> THEN nm_out[k].den2 = 1
                 ELSE SquaredNorm(nm_out[k].num) = nm_out[k].den2

\* a batch that returned a zero vector and a vector that had to be scaled
C23_Witness ==
    /\ nm_pc = "returned"
    /\ nm_fn = "generate_embeddings_batch"
    /\ \E k \in 1..Len(nm_out) : nm_pooled[k] = <<0, 0>> /\ nm_out[k].den2 = 1
    /\ \E k \in 1..Len(nm_out) : nm_out[k].den2 > 1

----------------------------------------------------------------------------
\* Runs of the queued task

\* C24: a first run of the task on which nothing goes wrong, for an
\* existing document whose text yields at least one chunk, ends with
\* success = True and every produced chunk stored under its sequence index.
C24_CleanRunStoresIndexedChunks ==
    \A d \in DocIds :
        LET chunks == TaskChunksOf[docs[d].text]
            mine == {r \in rows : r.document_id = d /\ r.id[2] = 1}
        IN (docs[d].present /\ task[d].runs = 1 /\ task[d].clean = 1 /\ chunks # <<>>) =>
              /\ task[d].last.success
              /\ task[d].last.chunks_created = Len(chunks)
              /\ {r.chunk_id : r \in mine} = 0..(Len(chunks) - 1)
              /\ Cardinality(mine) = Len(chunks)

\* C25: every run of the task ends with a result: success = False with an
\* error message whenever a sub-step failed (document not found, download
\* or extraction, too little text, commit of the classification, embedding,
\* persistence), success = True only when none did; a failed run leaves no
\* row behind, and a run changes no row and no record of another document.
C25_FailuresCaughtAtTaskBoundary ==
    /\ [](\A d \in DocIds :
            LET last == task[d].last
                chunks == TaskChunksOf[docs[d].text]
                short == Len(Strip(docs[d].text)) < MinTextChars
            IN task[d].runs >= 1 =>
                 /\ last.success => (docs[d].present /\ ~short /\ last.error = "none")
                 /\ ~last.success => (last.error # "none" /\ last.chunks_created = 0)
                 /\ (~docs[d].present \/ short) => ~last.success
                 /\ (task[d].runs = 1 /\ task[d].clean = 0 /\ docs[d].present
                        /\ ~short /\ chunks # <<>>) => ~last.success)
    /\ [][\A d \in DocIds :
            task'[d] # task[d] =>
                /\ task'[d].runs = task[d].runs + 1
                /\ {r \in rows' : r.document_id # d} = {r \in rows : r.document_id # d}
                /\ ~task'[d].last.success =>
                      {r \in rows' : r.document_id = d} = {r \in rows : r.document_id = d}
                /\ \A e \in DocIds \ {d} : task'[e] = task[e]
                /\ docs' = docs]_vars

\* a run whose embedding failed, reported as a failure, the chunk of the
\* earlier document still in the table
C25_Witness ==
    \E d \in DocIds :
        /\ task[d].runs = 1
        /\ task[d].last.error = "embedding"
        /\ ~task[d].last.success
        /\ EarlierRows \subseteq rows

----------------------------------------------------------------------------
\* Inference against the shared model

\* C26: at most one inference call executes against the model at a time:
\* the event loop is never inside the forward pass of a call while the
\* worker thread generates, and no generation sees the model on another
\* device than the one its inputs were sent to.
C26_OneInferenceAtATime ==
    /\ ~(inf_loop.phase = "forward" /\ inf_thread.phase = "generating")
    /\ ~inf_moved

\* C27: no inference call runs inside a request handler before its
\* response: the event loop is inside an inference call only for a
\* deferred task.
C27_NoInferenceInRequestHandler ==
    inf_loop.phase \in {"entered", "forward"} => inf_loop.ctx # "request"

\* C28: a relocating call that did not overlap with another inference call
\* leaves the model, when it has returned or raised from its forward pass,
\* on the device the model was on when the call started.
C28_RelocationRestored ==
    (/\ inf_loop.phase \in {"returned", "raised"}
     /\ Relocates(inf_loop.fn, inf_home)
     /\ inf_loop.alone) =>
        inf_device = inf_loop.at_start

\* generate_embedding raised from its forward pass with the model loaded on
\* the GPU, and the model is on the GPU
C28_Witness ==
    /\ inf_loop.phase = "raised"
    /\ inf_loop.fn = "generate_embedding"
    /\ inf_loop.alone
    /\ inf_loop.at_start = "cuda"
    /\ inf_device = "cuda"

----------------------------------------------------------------------------
\* Progress of the chunker

\* C29: with 0 <= chunk_overlap < chunk_size every chunk ends strictly
\* after the chunk before it, so that no chunk is a sub-range of the chunk
\* before it.
C29_ChunkEndsAdvance ==
    ct_overlap < ct_size =>
        \A k \in 2..Len(ct_chunks) : ct_chunks[k].end_pos > ct_chunks[k - 1].end_pos

----------------------------------------------------------------------------
\* Isolation between users

\* C30: every document shown to a user by the chat endpoints was uploaded
\* by that user.
C30_ChatShowsOwnDocumentsOnly ==
    ow_response.endpoint \in {"send_message", "stream_message"} =>
        \A d \in ow_response.documents : ow_owner[d] = ow_response.user

====
